---------------------------- MODULE Spec2Model ----------------------------
(***************************************************************************)
(* A model of the analysis core of api-discovery-tool:                     *)
(*   - ResultCache               (processing/result_cache.py)              *)
(*   - ResultProcessor           (processing/result_processor.py)          *)
(*   - categorize_api_type       (processing/categorizer.py)               *)
(*   - normalize_url, get_endpoint_signature, deduplicate_endpoints        *)
(*                               (processing/deduplicator.py)              *)
(*   - calculate_confidence      (scoring.py)                              *)
(*   - ConfidenceScorer.score    (processing/confidence_scorer.py)         *)
(*   - APIPatternRecognizer      (processing/pattern_recognizer.py)        *)
(*                                                                         *)
(* Python strings that the code takes apart (URLs, header values, bodies)  *)
(* are sequences of tokens; a token is the smallest piece any of the       *)
(* code's prefix, suffix, substring or case operations distinguishes.      *)
(* Python values of varying type are tagged records [t |-> type, v |-> x]. *)
(***************************************************************************)
EXTENDS Integers, Sequences, FiniteSets, TLC

VARIABLES
    store,             \* the shelve file: hash key -> {'timestamp', 'data'}
    db,                \* ResultCache._db: "None" or "open"
    now,               \* the wall clock, in seconds
    lastOp,            \* the last operation called and its params
    ret,               \* what the last cache operation returned
    putLog,            \* history: per key, the last put whose entry is still untouched
    instance,          \* the number of ResultCache objects constructed on the file so far
    procCall,          \* the arguments of the last process_results call
    procOut,           \* what the last process_results call did
    callers,           \* concurrent process_results calls: where each is and what it holds
    endpoint_data,     \* the input of categorize_api_type
    api_type,          \* its result
    endpoints,         \* the input of deduplicate_endpoints
    unique_endpoints,  \* its result, once it has returned
    raw_url,           \* the input of normalize_url
    normalized,        \* its result
    sig_endpoint,      \* the input of get_endpoint_signature
    sig_result,        \* its result, once it has returned
    result_data,       \* the input of calculate_confidence
    confidence_score,  \* its result, once it has returned
    evidence,          \* the specification and interactions of a recognizer and scorer
    profile,           \* the patterns handed to ConfidenceScorer.score
    score_result,      \* what score returned
    recognizer,        \* the paths and requests of an APIPatternRecognizer
    versioning,        \* what identify_versioning returned
    site,              \* the website: its links, the fetches that fail, sitemap.xml and robots.txt
    crawl              \* a WebsiteAnalyzer.analyze call: its position and its locals

cacheVars == <<store, db, now, lastOp, ret, putLog, instance>>
procVars  == <<procCall, procOut, callers>>
classVars == <<endpoint_data, api_type>>
dedupVars == <<endpoints, unique_endpoints>>
normVars  == <<raw_url, normalized>>
sigVars   == <<sig_endpoint, sig_result>>
confVars  == <<result_data, confidence_score>>
scoreVars == <<evidence, profile, score_result>>
versVars  == <<recognizer, versioning>>
crawlVars == <<site, crawl>>
vars == <<store, db, now, lastOp, ret, putLog, instance, procCall, procOut, callers,
          endpoint_data, api_type, endpoints, unique_endpoints, raw_url, normalized,
          sig_endpoint, sig_result, result_data, confidence_score,
          evidence, profile, score_result, recognizer, versioning, site, crawl>>

(***************************************************************************)
(* Bounds of the model.                                                    *)
(***************************************************************************)
MaxTime == 3
MaxInstances == 2

\* max_age_seconds of the cache under test.
MaxAge == 2

(***************************************************************************)
(* Python values.                                                          *)
(***************************************************************************)
Str(s)   == [t |-> "str", v |-> s]
PyNone   == [t |-> "None", v |-> <<>>]
Missing  == [t |-> "missing", v |-> <<>>]
PyInt    == [t |-> "int", v |-> <<>>]

RECURSIVE SeqToSet(_)
SeqToSet(s) == IF s = <<>> THEN {} ELSE {Head(s)} \cup SeqToSet(Tail(s))

(***************************************************************************)
(* ResultCache                                                             *)
(***************************************************************************)

\* params dictionaries, as insertion-ordered sequences of <<name, value>>.
ParamsAB == <<<<"query", "users">>, <<"version", "1">>>>
ParamsBA == <<<<"version", "1">>, <<"query", "users">>>>
ParamsC  == <<<<"query", "products">>>>
\* {1: 'x'} and {'1': 'x'}: a dictionary key is named by its type and text.
ParamsInt == <<<<"int:1", "x">>>>
ParamsStr == <<<<"str:1", "x">>>>
DictParams == {ParamsAB, ParamsBA, ParamsC}
KeyParams == DictParams \cup {ParamsInt, ParamsStr}

\* The lexicographic rank of the dictionary keys in use.
KeyRank(name) == CASE name \in {"int:1", "str:1"} -> 0
                   [] name = "data" -> 1
                   [] name = "discovery_method" -> 2
                   [] name = "query" -> 3
                   [] name = "version" -> 4

\* sorted(): insertion sort of the items by key name.
RECURSIVE InsertSorted(_, _)
InsertSorted(item, s) ==
    IF s = <<>> THEN <<item>>
    ELSE IF KeyRank(item[1]) <= KeyRank(Head(s)[1]) THEN <<item>> \o s
    ELSE <<Head(s)>> \o InsertSorted(item, Tail(s))

RECURSIVE SortItems(_)
SortItems(s) == IF s = <<>> THEN <<>> ELSE InsertSorted(Head(s), SortItems(Tail(s)))

\* The text json.dumps writes for a dictionary key: an int key is written
\* as the string of its digits.
JsonKey(name) == CASE name = "int:1" -> "1"
                   [] name = "str:1" -> "1"
                   [] OTHER -> name

\* json.dumps(params, sort_keys=True): the canonical text of params.
json_dumps_sorted(params) ==
    LET sorted == SortItems(params) IN
    [i \in 1..Len(sorted) |-> <<JsonKey(sorted[i][1]), sorted[i][2]>>]

\* hashlib.sha256(...).hexdigest(), taken as collision-free.
sha256_hexdigest(text) == <<"sha256", text>>

_generate_key_unsorted(params) ==
    sha256_hexdigest([i \in 1..Len(params) |-> <<JsonKey(params[i][1]), params[i][2]>>])
_generate_key(params) == sha256_hexdigest(json_dumps_sorted(params))

\* Stored timestamps: what datetime.isoformat() writes, and what else a
\* shelve file may hold under 'timestamp'.
isoformat(t)   == [fmt |-> "iso", t |-> t]
NaiveStamp(t)  == [fmt |-> "naive", t |-> t]
GarbageStamp   == [fmt |-> "garbage", t |-> 0]
NoStamp        == [fmt |-> "None", t |-> 0]

\* datetime.fromisoformat with the strptime fallback and the UTC default.
ParseTimestamp(ts) ==
    IF ts.fmt \in {"iso", "naive"} THEN [ok |-> TRUE, t |-> ts.t]
    ELSE [ok |-> FALSE, t |-> 0]

Remove(st, key) == [k \in DOMAIN st \ {key} |-> st[k]]
Write(st, key, item) == [k \in DOMAIN st \cup {key} |-> IF k = key THEN item ELSE st[k]]

\* ResultCache.get that rewrites the timestamp of the entry it returns.
get_touch(st, params, t) ==
    LET key == _generate_key(params) IN
    IF key \notin DOMAIN st THEN [hit |-> FALSE, ret |-> "None", store |-> st]
    ELSE LET cached_item == st[key]
             parsed == ParseTimestamp(cached_item.timestamp) IN
         IF cached_item.timestamp.fmt = "None" THEN [hit |-> FALSE, ret |-> "None", store |-> st]
         ELSE IF ~parsed.ok THEN [hit |-> FALSE, ret |-> "None", store |-> st]
         ELSE IF t - parsed.t <= MaxAge
              THEN [hit |-> TRUE, ret |-> cached_item.data,
                    store |-> Write(st, key, [cached_item EXCEPT !.timestamp = isoformat(t)])]
              ELSE [hit |-> FALSE, ret |-> "None", store |-> Remove(st, key)]

\* ResultCache.get with the comparison of line 107 turned around.
get_mutant(st, params, t) ==
    LET key == _generate_key(params) IN
    IF key \notin DOMAIN st THEN [hit |-> FALSE, ret |-> "None", store |-> st]
    ELSE LET cached_item == st[key]
             parsed == ParseTimestamp(cached_item.timestamp) IN
         IF cached_item.timestamp.fmt = "None" THEN [hit |-> FALSE, ret |-> "None", store |-> st]
         ELSE IF ~parsed.ok THEN [hit |-> FALSE, ret |-> "None", store |-> st]
         ELSE IF t - parsed.t >= MaxAge
              THEN [hit |-> TRUE, ret |-> cached_item.data, store |-> st]
              ELSE [hit |-> FALSE, ret |-> "None", store |-> Remove(st, key)]

\* ResultCache.get without the eviction of line 111.
get_noevict(st, params, t) ==
    LET key == _generate_key(params) IN
    IF key \notin DOMAIN st THEN [hit |-> FALSE, ret |-> "None", store |-> st]
    ELSE LET cached_item == st[key]
             parsed == ParseTimestamp(cached_item.timestamp) IN
         IF cached_item.timestamp.fmt = "None" THEN [hit |-> FALSE, ret |-> "None", store |-> st]
         ELSE IF ~parsed.ok THEN [hit |-> FALSE, ret |-> "None", store |-> st]
         ELSE IF t - parsed.t <= MaxAge
              THEN [hit |-> TRUE, ret |-> cached_item.data, store |-> st]
              ELSE [hit |-> FALSE, ret |-> "None", store |-> st]

\* ResultCache.get: the value returned (hit tells a payload from the None of
\* a miss) and the store afterwards.
get(st, params, t) ==
    LET key == _generate_key(params) IN
    IF key \notin DOMAIN st THEN [hit |-> FALSE, ret |-> "None", store |-> st]
    ELSE LET cached_item == st[key]
             parsed == ParseTimestamp(cached_item.timestamp) IN
         IF cached_item.timestamp.fmt = "None" THEN [hit |-> FALSE, ret |-> "None", store |-> st]
         ELSE IF ~parsed.ok THEN [hit |-> FALSE, ret |-> "None", store |-> st]
         ELSE IF t - parsed.t <= MaxAge
              THEN [hit |-> TRUE, ret |-> cached_item.data, store |-> st]
              ELSE [hit |-> FALSE, ret |-> "None", store |-> Remove(st, key)]

\* ResultCache.put that keeps the timestamp of an entry it overwrites.
put_keepstamp(st, params, data, t) ==
    LET key == _generate_key(params) IN
    Write(st, key, [timestamp |-> IF key \in DOMAIN st THEN st[key].timestamp
                                  ELSE isoformat(t),
                    data |-> data])

\* ResultCache.put: the store afterwards.
put(st, params, data, t) ==
    Write(st, _generate_key(params), [timestamp |-> isoformat(t), data |-> data])

\* The entry {}: neither a timestamp nor a payload.  It is the one entry
\* that fails the tests `if cached_item:` of get and clear_stale.
EmptyItem == [timestamp |-> NoStamp, data |-> "None"]

\* Whether clear_stale lists the entry for deletion.
IsStaleItem(item, t) ==
    LET parsed == ParseTimestamp(item.timestamp) IN
    IF item = EmptyItem THEN FALSE
    ELSE IF item.timestamp.fmt = "None" THEN TRUE
    ELSE IF ~parsed.ok THEN TRUE
    ELSE t - parsed.t > MaxAge

\* ResultCache.clear_stale: the store afterwards.
clear_stale(st, t) ==
    LET keys_to_delete == {k \in DOMAIN st : IsStaleItem(st[k], t)} IN
    [k \in DOMAIN st \ keys_to_delete |-> st[k]]

\* clear_all that passes over the entries failing `if cached_item:`.
clear_all_truthy(st) == [k \in {j \in DOMAIN st : st[j] = EmptyItem} |-> st[k]]

\* ResultCache.clear_all: the store afterwards.
clear_all(st) == [k \in {} |-> st[k]]

\* _open_db that leaves self._db as it is.
_open_db_lazy(h) == h

\* _close_db that leaves self._db as it is.
_close_db_leak(h) == h

_open_db(h) == IF h = "None" THEN "open" ELSE h
_close_db(h) == IF h # "None" THEN "None" ELSE h

\* What an operation makes of the store through self._db: with self._db None
\* the attribute access or subscript raises and the store is not touched.
Through(h, after, st) == IF h = "None" THEN st ELSE after
Returned(h, value, error) == IF h = "None" THEN error ELSE value


(***************************************************************************)
(* The cache as a state machine.                                           *)
(***************************************************************************)
CacheData == {"d1", "d2"}

NoPut == [d |-> "None", t |-> -1, inst |-> 0]

\* The history of puts after a clear_stale, a clear_all or a direct write
\* that leaves the store as st2: a key's record is dropped when its entry is
\* deleted or rewritten.
KeepLog(st2) ==
    [k \in DOMAIN putLog |->
        IF k \in DOMAIN store /\ k \in DOMAIN st2 /\ st2[k] = store[k]
        THEN putLog[k] ELSE NoPut]

IdleProcess  == procCall = <<>> /\ procOut = <<>> /\ callers = <<>>
IdleClassify == endpoint_data = <<>> /\ api_type = "pending"
IdleDedup    == endpoints = <<>> /\ unique_endpoints = [done |-> FALSE, v |-> <<>>]
IdleNormalize == raw_url = <<>> /\ normalized = [done |-> FALSE, v |-> <<>>]
IdleSignature == sig_endpoint = <<>> /\ sig_result = [done |-> FALSE, v |-> <<>>]
IdleConfidence == result_data = <<>> /\ confidence_score = [done |-> FALSE, v |-> [n |-> 0, d |-> 1]]
IdleScore == evidence = <<>> /\ profile = [origin |-> "none"] /\ score_result = [done |-> FALSE, v |-> 0]
IdleVersioning == recognizer = <<>> /\ versioning = [done |-> FALSE]
IdleCrawl == site = <<>> /\ crawl = [pc |-> "none"]

InitCache(AllParams) ==
    /\ store = [k \in {} |-> 0]
    /\ db = "None"
    /\ now = 0
    /\ lastOp = [op |-> "init", params |-> <<>>]
    /\ ret = "None"
    /\ putLog = [k \in {_generate_key(p) : p \in AllParams} |-> NoPut]
    /\ instance = 1

\* cache.get(params)
Get(params) ==
    LET out == get(store, params, now) IN
    /\ db' = _open_db(db)
    /\ store' = Through(db', out.store, store)
    /\ ret' = Returned(db', out.ret, "AttributeError")
    /\ lastOp' = [op |-> "get", params |-> params]
    /\ UNCHANGED <<now, putLog, instance>>

\* cache.put(params, data)
Put(params, data) ==
    /\ db' = _open_db(db)
    /\ store' = Through(db', put(store, params, data, now), store)
    /\ ret' = Returned(db', "None", "TypeError")
    /\ lastOp' = [op |-> "put", params |-> params]
    /\ putLog' = Through(db', [putLog EXCEPT ![_generate_key(params)] =
                                       [d |-> data, t |-> now, inst |-> instance]], putLog)
    /\ UNCHANGED <<now, instance>>

\* cache.clear_stale()
ClearStale ==
    /\ db' = _open_db(db)
    /\ store' = Through(db', clear_stale(store, now), store)
    /\ ret' = Returned(db', "None", "AttributeError")
    /\ lastOp' = [op |-> "clear_stale", params |-> <<>>]
    /\ putLog' = KeepLog(store')
    /\ UNCHANGED <<now, instance>>

\* cache.clear_all()
ClearAll ==
    /\ db' = _open_db(db)
    /\ store' = Through(db', clear_all(store), store)
    /\ ret' = Returned(db', "None", "AttributeError")
    /\ lastOp' = [op |-> "clear_all", params |-> <<>>, cleared |-> Cardinality(DOMAIN store)]
    /\ putLog' = KeepLog(store')
    /\ UNCHANGED <<now, instance>>

\* with cache: ... entry
Enter ==
    /\ db' = _open_db(db)
    /\ lastOp' = [op |-> "__enter__", params |-> <<>>]
    /\ ret' = "None"
    /\ UNCHANGED <<store, now, putLog, instance>>

\* An exit from the with-block that truncates the file.
Exit_truncate ==
    /\ db' = _close_db(db)
    /\ store' = clear_all(store)
    /\ lastOp' = [op |-> "__exit__", params |-> <<>>]
    /\ ret' = "None"
    /\ UNCHANGED <<now, putLog, instance>>

\* with cache: ... exit
Exit ==
    /\ db' = _close_db(db)
    /\ lastOp' = [op |-> "__exit__", params |-> <<>>]
    /\ ret' = "None"
    /\ UNCHANGED <<store, now, putLog, instance>>

\* with cache: ... exit by an exception raised in the block; __exit__
\* ignores exc_type and returns None, so the exception goes on to the caller.
ExitRaised ==
    /\ db = "open"
    /\ db' = _close_db(db)
    /\ lastOp' = [op |-> "__exit__(exc)", params |-> <<>>]
    /\ ret' = "None"
    /\ UNCHANGED <<store, now, putLog, instance>>

\* cache.close()
Close ==
    /\ db' = _close_db(db)
    /\ lastOp' = [op |-> "close", params |-> <<>>]
    /\ ret' = "None"
    /\ UNCHANGED <<store, now, putLog, instance>>

\* ResultCache(cache_name, cache_dir, max_age_seconds) once more, on the
\* same file, after the object before it has closed its handle.
NewInstance ==
    /\ db = "None"
    /\ instance < MaxInstances
    /\ instance' = instance + 1
    /\ db' = "None"
    /\ lastOp' = [op |-> "__init__", params |-> <<>>]
    /\ ret' = "None"
    /\ UNCHANGED <<store, now, putLog>>

\* A second of wall-clock time passes.
Tick ==
    /\ now < MaxTime
    /\ now' = now + 1
    /\ UNCHANGED <<store, db, lastOp, ret, putLog, instance>>

\* A direct write into the shelve file that replaces the timestamp of an
\* existing entry: a timestamp older than max_age_seconds, one that does not
\* parse, or none at all.
Tamper(key, stamp) ==
    /\ key \in DOMAIN store
    /\ stamp.fmt = "iso" => now - stamp.t > MaxAge
    /\ store' = [store EXCEPT ![key].timestamp = stamp]
    /\ lastOp' = [op |-> "tamper", params |-> <<>>]
    /\ ret' = "None"
    /\ putLog' = KeepLog([store EXCEPT ![key].timestamp = stamp])
    /\ UNCHANGED <<db, now, instance>>

TamperStamps == {isoformat(0), GarbageStamp, NoStamp}

\* A direct write into the shelve file that replaces an existing entry by {}.
Blank(key) ==
    /\ key \in DOMAIN store
    /\ store' = [store EXCEPT ![key] = EmptyItem]
    /\ lastOp' = [op |-> "blank", params |-> <<>>]
    /\ ret' = "None"
    /\ putLog' = KeepLog([store EXCEPT ![key] = EmptyItem])
    /\ UNCHANGED <<db, now, instance>>

Init ==
    /\ InitCache(DictParams)
    /\ IdleProcess /\ IdleClassify /\ IdleDedup /\ IdleNormalize
    /\ IdleSignature /\ IdleConfidence /\ IdleScore /\ IdleVersioning /\ IdleCrawl

Next ==
    \/ \E p \in DictParams : Get(p) /\ UNCHANGED <<procVars, classVars, dedupVars, normVars, sigVars, confVars, scoreVars, versVars, crawlVars>>
    \/ \E p \in DictParams, d \in CacheData :
          Put(p, d) /\ UNCHANGED <<procVars, classVars, dedupVars, normVars, sigVars, confVars, scoreVars, versVars, crawlVars>>
    \/ ClearStale /\ UNCHANGED <<procVars, classVars, dedupVars, normVars, sigVars, confVars, scoreVars, versVars, crawlVars>>
    \/ ClearAll /\ UNCHANGED <<procVars, classVars, dedupVars, normVars, sigVars, confVars, scoreVars, versVars, crawlVars>>
    \/ Enter /\ UNCHANGED <<procVars, classVars, dedupVars, normVars, sigVars, confVars, scoreVars, versVars, crawlVars>>
    \/ Exit /\ UNCHANGED <<procVars, classVars, dedupVars, normVars, sigVars, confVars, scoreVars, versVars, crawlVars>>
    \/ Tick /\ UNCHANGED <<procVars, classVars, dedupVars, normVars, sigVars, confVars, scoreVars, versVars, crawlVars>>
    \/ \E k \in DOMAIN store, s \in TamperStamps :
          Tamper(k, s) /\ UNCHANGED <<procVars, classVars, dedupVars, normVars, sigVars, confVars, scoreVars, versVars, crawlVars>>
    \/ \E k \in DOMAIN store :
          Blank(k) /\ UNCHANGED <<procVars, classVars, dedupVars, normVars, sigVars, confVars, scoreVars, versVars, crawlVars>>

Spec == Init /\ [][Next]_vars

\* The cache under params of every kind of dictionary key.
InitKey ==
    /\ InitCache(KeyParams)
    /\ IdleProcess /\ IdleClassify /\ IdleDedup /\ IdleNormalize
    /\ IdleSignature /\ IdleConfidence /\ IdleScore /\ IdleVersioning /\ IdleCrawl

NextKey ==
    \/ \E p \in KeyParams : Get(p) /\ UNCHANGED <<procVars, classVars, dedupVars, normVars, sigVars, confVars, scoreVars, versVars, crawlVars>>
    \/ \E p \in KeyParams, d \in CacheData :
          Put(p, d) /\ UNCHANGED <<procVars, classVars, dedupVars, normVars, sigVars, confVars, scoreVars, versVars, crawlVars>>
    \/ Tick /\ UNCHANGED <<procVars, classVars, dedupVars, normVars, sigVars, confVars, scoreVars, versVars, crawlVars>>

SpecKey == InitKey /\ [][NextKey]_vars

\* The cache through the lives of several ResultCache objects on one file.
LifecycleParams == {ParamsAB, ParamsC}

InitLifecycle ==
    /\ InitCache(LifecycleParams)
    /\ IdleProcess /\ IdleClassify /\ IdleDedup /\ IdleNormalize
    /\ IdleSignature /\ IdleConfidence /\ IdleScore /\ IdleVersioning /\ IdleCrawl

NextLifecycle ==
    \/ \E p \in LifecycleParams : Get(p) /\ UNCHANGED <<procVars, classVars, dedupVars, normVars, sigVars, confVars, scoreVars, versVars, crawlVars>>
    \/ \E p \in LifecycleParams, d \in CacheData :
          Put(p, d) /\ UNCHANGED <<procVars, classVars, dedupVars, normVars, sigVars, confVars, scoreVars, versVars, crawlVars>>
    \/ ClearStale /\ UNCHANGED <<procVars, classVars, dedupVars, normVars, sigVars, confVars, scoreVars, versVars, crawlVars>>
    \/ ClearAll /\ UNCHANGED <<procVars, classVars, dedupVars, normVars, sigVars, confVars, scoreVars, versVars, crawlVars>>
    \/ Enter /\ UNCHANGED <<procVars, classVars, dedupVars, normVars, sigVars, confVars, scoreVars, versVars, crawlVars>>
    \/ Exit /\ UNCHANGED <<procVars, classVars, dedupVars, normVars, sigVars, confVars, scoreVars, versVars, crawlVars>>
    \/ ExitRaised /\ UNCHANGED <<procVars, classVars, dedupVars, normVars, sigVars, confVars, scoreVars, versVars, crawlVars>>
    \/ Close /\ UNCHANGED <<procVars, classVars, dedupVars, normVars, sigVars, confVars, scoreVars, versVars, crawlVars>>
    \/ NewInstance /\ UNCHANGED <<procVars, classVars, dedupVars, normVars, sigVars, confVars, scoreVars, versVars, crawlVars>>
    \/ Tick /\ UNCHANGED <<procVars, classVars, dedupVars, normVars, sigVars, confVars, scoreVars, versVars, crawlVars>>

SpecLifecycle == InitLifecycle /\ [][NextLifecycle]_vars


(***************************************************************************)
(* ConfidenceScorer.score and APIPatternRecognizer, as far as              *)
(* ResultProcessor uses them.                                              *)
(*                                                                         *)
(* An OpenAPI document is [present, title, paths, securitySchemes]; paths  *)
(* is the sequence of its path items, each with its literal path segments, *)
(* the keys of its operations and whether an operation declares responses. *)
(* The documents of the model declare no parameters, media types, bodies   *)
(* or component schemas.  {} and None are NoSpec.  An observed interaction *)
(* is its request method.                                                  *)
(***************************************************************************)
NoSpec == [present |-> FALSE, title |-> FALSE, paths |-> <<>>, securitySchemes |-> FALSE]

\* {openapi: '3.0.0', paths: {'/test': {get: {responses: {'200': {}}}}}}
SpecTest ==
    [present |-> TRUE, title |-> FALSE,
     paths |-> <<[segments |-> <<"test">>, operations |-> <<"get">>, responses |-> TRUE]>>,
     securitySchemes |-> FALSE]

\* The sample specification of result_processor.py, with a second path.
SpecSample ==
    [present |-> TRUE, title |-> TRUE,
     paths |-> <<[segments |-> <<"test">>, operations |-> <<"get", "post">>,
                  responses |-> TRUE],
                 [segments |-> <<"items">>, operations |-> <<"get", "summary">>,
                  responses |-> FALSE]>>,
     securitySchemes |-> TRUE]

HttpMethodNames == {"GET", "POST", "PUT", "DELETE", "PATCH", "OPTIONS", "HEAD", "TRACE"}

\* str.upper() on the operation keys and method strings in use.
Upper(name) == CASE name = "get" -> "GET"
                 [] name = "post" -> "POST"
                 [] name = "put" -> "PUT"
                 [] name = "Get" -> "GET"
                 [] OTHER -> name

RECURSIVE CountIn(_, _)
CountIn(x, s) == IF s = <<>> THEN 0
                 ELSE (IF Head(s) = x THEN 1 ELSE 0) + CountIn(x, Tail(s))

RECURSIVE UpperAll(_)
UpperAll(s) == IF s = <<>> THEN <<>> ELSE <<Upper(Head(s))>> \o UpperAll(Tail(s))

RECURSIVE AllOperations(_)
AllOperations(paths) ==
    IF paths = <<>> THEN <<>>
    ELSE UpperAll(Head(paths).operations) \o AllOperations(Tail(paths))

\* identify_http_methods()["spec_methods"]: method -> count, the methods
\* never counted left out.
spec_methods(openapi_spec) ==
    LET ops == AllOperations(openapi_spec.paths)
        found == {m \in HttpMethodNames : CountIn(m, ops) > 0} IN
    [m \in found |-> CountIn(m, ops)]

\* identify_http_methods()["observed_methods"], likewise.
observed_methods(http_interactions) ==
    LET ms == UpperAll(http_interactions)
        found == {m \in SeqToSet(ms) : m # ""} IN
    [m \in found |-> CountIn(m, ms)]

\* The categories of identify_all_patterns(), by their keys in the profile.
CategoryNames == {"naming_conventions", "versioning", "authentication", "pagination",
                  "data_formats", "http_methods", "status_codes"}

\* Path segments that version_path_pattern matches when a slash follows them.
VersionSegments == {"v1", "v2", "v10"}

\* identify_versioning(): re.search finds /v<digits>/ in a path string, so a
\* version segment counts only when another segment follows it.
identify_versioning(openapi_spec) ==
    \E i \in 1..Len(openapi_spec.paths) :
        \E j \in 1..(Len(openapi_spec.paths[i].segments) - 1) :
            openapi_spec.paths[i].segments[j] \in VersionSegments

\* For each category, whether the identify_* call returned a non-empty map.
\* The documents modelled carry no parameters and no media types, and the
\* interactions carry a method only.
Findings(openapi_spec, http_interactions) ==
    [c \in CategoryNames |->
        CASE c = "naming_conventions" ->
                 \E i \in 1..Len(openapi_spec.paths) : openapi_spec.paths[i].segments # <<>>
          [] c = "versioning" -> identify_versioning(openapi_spec)
          [] c = "authentication" -> openapi_spec.securitySchemes
          [] c = "http_methods" ->
                 \/ \E i \in 1..Len(openapi_spec.paths) :
                        \E k \in 1..Len(openapi_spec.paths[i].operations) :
                            Upper(openapi_spec.paths[i].operations[k]) \in HttpMethodNames
                 \/ \E k \in 1..Len(http_interactions) : http_interactions[k] # ""
          [] c = "status_codes" ->
                 \E i \in 1..Len(openapi_spec.paths) : openapi_spec.paths[i].responses
          [] OTHER -> FALSE]

\* identify_all_patterns(): what ConfidenceScorer.score reads of the profile.
\* The profile's keys are naming_conventions, versioning, authentication,
\* pagination, data_formats, http_methods and status_codes, so a get of
\* versioning_schemes, authentication_schemes, common_paths or
\* keyword_matches_in_urls finds nothing.
identify_all_patterns(openapi_spec, http_interactions) ==
    [run |-> TRUE,
     keys |-> CategoryNames,
     found |-> Findings(openapi_spec, http_interactions),
     versioning_schemes |-> FALSE,
     naming_conventions |-> \E i \in 1..Len(openapi_spec.paths) :
                               openapi_spec.paths[i].segments # <<>>,
     authentication_schemes |-> FALSE,
     data_formats |-> FALSE,
     common_paths |-> 0,
     keyword_matches_in_urls |-> 0,
     identified_versions |-> FALSE,
     observed_auth_headers |-> FALSE,
     spec_methods |-> spec_methods(openapi_spec),
     observed_methods |-> observed_methods(http_interactions)]

\* The empty profile {}.
NoPatterns ==
    [run |-> FALSE, keys |-> {}, found |-> [c \in CategoryNames |-> FALSE],
     versioning_schemes |-> FALSE, naming_conventions |-> FALSE,
     authentication_schemes |-> FALSE, data_formats |-> FALSE, common_paths |-> 0,
     keyword_matches_in_urls |-> 0, identified_versions |-> FALSE,
     observed_auth_headers |-> FALSE,
     spec_methods |-> [m \in {} |-> 0], observed_methods |-> [m \in {} |-> 0]]

Min(a, b) == IF a <= b THEN a ELSE b
Max(a, b) == IF a >= b THEN a ELSE b
Pts(cond, n) == IF cond THEN n ELSE 0

\* ConfidenceScorer(openapi_spec, http_interactions).score(patterns, data_source_type)
\* score() without the upper clamp of its return statements.
score_unclamped(patterns, data_source_type, openapi_spec, http_interactions) ==
    IF data_source_type = "openapi" THEN
        Max(50 + Pts(patterns.versioning_schemes, 10)
                   + Pts(patterns.naming_conventions, 5)
                   + Pts(patterns.authentication_schemes, 10)
                   + Pts(patterns.data_formats, 5)
                   + Pts(openapi_spec.present /\ openapi_spec.title, 5)
                   + Pts(openapi_spec.present /\ openapi_spec.paths # <<>>,
                         10 * Min(Len(openapi_spec.paths), 3))
                   + Pts(openapi_spec.present /\ openapi_spec.securitySchemes, 5), 0)
    ELSE IF data_source_type = "website" THEN
        Max(30 + Pts(patterns.versioning_schemes, 20)
                   + 15 * patterns.common_paths
                   + 5 * patterns.keyword_matches_in_urls, 0)
    ELSE IF data_source_type = "http_interactions" THEN
        Max(40 + Pts(patterns.identified_versions, 15)
                   + Pts(patterns.observed_auth_headers, 15)
                   + 5 * Cardinality(DOMAIN patterns.observed_methods)
                   + 2 * Len(http_interactions), 0)
    ELSE 10

score(patterns, data_source_type, openapi_spec, http_interactions) ==
    IF data_source_type = "openapi" THEN
        Min(Max(50 + Pts(patterns.versioning_schemes, 10)
                   + Pts(patterns.naming_conventions, 5)
                   + Pts(patterns.authentication_schemes, 10)
                   + Pts(patterns.data_formats, 5)
                   + Pts(openapi_spec.present /\ openapi_spec.title, 5)
                   + Pts(openapi_spec.present /\ openapi_spec.paths # <<>>,
                         10 * Min(Len(openapi_spec.paths), 3))
                   + Pts(openapi_spec.present /\ openapi_spec.securitySchemes, 5), 0), 100)
    ELSE IF data_source_type = "website" THEN
        Min(Max(30 + Pts(patterns.versioning_schemes, 20)
                   + 15 * patterns.common_paths
                   + 5 * patterns.keyword_matches_in_urls, 0), 100)
    ELSE IF data_source_type = "http_interactions" THEN
        Min(Max(40 + Pts(patterns.identified_versions, 15)
                   + Pts(patterns.observed_auth_headers, 15)
                   + 5 * Cardinality(DOMAIN patterns.observed_methods)
                   + 2 * Len(http_interactions), 0), 100)
    ELSE 10

(***************************************************************************)
(* The recognizer and the scorer as a state machine: a profile comes from  *)
(* identify_all_patterns() on the evidence or from the caller, and score() *)
(* is called on it with a source type.                                     *)
(***************************************************************************)
PathItem(segments) == [segments |-> segments, operations |-> <<"get">>, responses |-> FALSE]

\* {info: {title}, paths: {'/api/users': {get: {}}}}, and the same document
\* with a versioned path, with security schemes, and with four paths.
SpecPlain ==
    [present |-> TRUE, title |-> TRUE, paths |-> <<PathItem(<<"api", "users">>)>>,
     securitySchemes |-> FALSE]
SpecVersioned == [SpecPlain EXCEPT !.paths = <<PathItem(<<"api", "v1", "users">>)>>]
SpecSecured == [SpecPlain EXCEPT !.securitySchemes = TRUE]
SpecFourPaths ==
    [SpecPlain EXCEPT !.paths = <<PathItem(<<"a">>), PathItem(<<"b">>),
                                  PathItem(<<"c">>), PathItem(<<"v2">>)>>]

ScoreSpecs == {NoSpec, SpecTest, SpecSample, SpecPlain, SpecVersioned, SpecSecured,
               SpecFourPaths}
ScoreInteractions == {<<>>, <<"GET">>, <<"GET", "post">>}
SourceTypes == {"openapi", "website", "http_interactions", "combined_source"}

\* Counts a caller can put in a profile: none, or enough to pass 100 points.
MaxCommonPaths == 5
MaxKeywordMatches == 3
ManyMethods == {"GET", "POST", "PUT", "DELETE", "PATCH", "OPTIONS", "HEAD", "TRACE",
                "CONNECT", "PROPFIND", "MKCOL", "LOCK", "UNLOCK"}

\* The profiles a caller hands to score() directly, with the keys score() reads.
SuppliedProfiles ==
    {[NoPatterns EXCEPT !.versioning_schemes = f[1], !.naming_conventions = f[2],
                        !.authentication_schemes = f[3], !.data_formats = f[4],
                        !.identified_versions = f[5], !.observed_auth_headers = f[6],
                        !.common_paths = cp, !.keyword_matches_in_urls = kw,
                        !.observed_methods = [m \in ms |-> 1]] :
        f \in [1..6 -> BOOLEAN], cp \in {0, MaxCommonPaths}, kw \in {0, MaxKeywordMatches},
        ms \in {{}, ManyMethods}}

\* patterns = APIPatternRecognizer(openapi_spec, http_interactions).identify_all_patterns()
Recognize ==
    /\ ~profile.run /\ ~score_result.done
    /\ profile' = identify_all_patterns(evidence.spec, evidence.inter)
    /\ UNCHANGED <<evidence, score_result>>
    /\ UNCHANGED <<cacheVars, procVars, classVars, dedupVars, normVars, sigVars, confVars, versVars, crawlVars>>

\* The caller builds the patterns itself.
Supply(p) ==
    /\ profile = NoPatterns /\ ~score_result.done
    /\ profile' = p
    /\ UNCHANGED <<evidence, score_result>>
    /\ UNCHANGED <<cacheVars, procVars, classVars, dedupVars, normVars, sigVars, confVars, versVars, crawlVars>>

\* ConfidenceScorer(openapi_spec, http_interactions).score(patterns, data_source_type)
Score(data_source_type) ==
    /\ ~score_result.done
    /\ score_result' = [done |-> TRUE,
                        v |-> score(profile, data_source_type, evidence.spec, evidence.inter)]
    /\ UNCHANGED <<evidence, profile>>
    /\ UNCHANGED <<cacheVars, procVars, classVars, dedupVars, normVars, sigVars, confVars, versVars, crawlVars>>

InitScore ==
    /\ evidence \in [spec : ScoreSpecs, inter : ScoreInteractions]
    /\ profile = NoPatterns
    /\ score_result = [done |-> FALSE, v |-> 0]
    /\ InitCache({}) /\ IdleProcess /\ IdleClassify /\ IdleDedup /\ IdleNormalize
    /\ IdleSignature /\ IdleConfidence /\ IdleVersioning /\ IdleCrawl

NextScore ==
    \/ Recognize
    \/ \E p \in SuppliedProfiles : Supply(p)
    \/ \E t \in SourceTypes : Score(t)

SpecScore == InitScore /\ [][NextScore]_vars

(***************************************************************************)
(* APIPatternRecognizer.identify_versioning: the versions it reports.  A   *)
(* path string or request URL is the sequence of its segments; a header    *)
(* or query parameter is the version it carries, or "None".  The Accept    *)
(* header is left out: the requests modelled carry X-API-Version only.     *)
(***************************************************************************)
MaxPaths == 2
MaxRequests == 2

\* group(1) or group(2) of version_path_pattern for a matched segment.
version_of(segment) ==
    CASE segment = "v1" -> "1" [] segment = "v2" -> "2" [] segment = "v10" -> "10"

\* sorted() compares version strings character by character.
TokenOrder == <<"1", "10", "2", "3">>
sorted_versions(S) == SelectSeq(TokenOrder, LAMBDA t : t \in S)

\* re.search(version_path_pattern, path_string): the leftmost /v<n>/, which
\* needs a slash on both sides of the segment.
RECURSIVE search_version(_)
search_version(path_string) ==
    IF Len(path_string) < 2 THEN "None"
    ELSE IF Head(path_string) \in VersionSegments THEN version_of(Head(path_string))
    ELSE search_version(Tail(path_string))

\* 'if version not in path_versions: path_versions.append(version)'
append_new(path_versions, version) ==
    IF version = "None" \/ version \in SeqToSet(path_versions) THEN path_versions
    ELSE Append(path_versions, version)

RECURSIVE scan_paths(_, _)
scan_paths(path_strings, path_versions) ==
    IF path_strings = <<>> THEN path_versions
    ELSE scan_paths(Tail(path_strings),
                    append_new(path_versions, search_version(Head(path_strings))))

RECURSIVE Urls(_)
Urls(http_interactions) ==
    IF http_interactions = <<>> THEN <<>>
    ELSE <<Head(http_interactions).url>> \o Urls(Tail(http_interactions))

\* Counter over the values of one request field, "None" left out.
field_counts(http_interactions, field) ==
    LET values == {http_interactions[i][field] : i \in 1..Len(http_interactions)} \ {"None"} IN
    [v \in values |->
        Cardinality({i \in 1..Len(http_interactions) : http_interactions[i][field] = v})]

versioning_info(paths, http_interactions) ==
    LET path_versions == scan_paths(Urls(http_interactions), scan_paths(paths, <<>>))
        header_versions == field_counts(http_interactions, "header")
        query_param_versions == field_counts(http_interactions, "param")
        identified == SeqToSet(path_versions) \cup DOMAIN header_versions
                          \cup DOMAIN query_param_versions
    IN  [path_versions |-> path_versions,
         header_versions |-> header_versions,
         query_param_versions |-> query_param_versions,
         identified_versions |-> sorted_versions(identified),
         keys |-> {k \in {"path_versions"} : path_versions # <<>>}
                  \cup {k \in {"header_versions"} : DOMAIN header_versions # {}}
                  \cup {k \in {"query_param_versions"} : DOMAIN query_param_versions # {}}
                  \cup {k \in {"identified_versions"} : identified # {}}]

\* The keys of 'paths' and the requests observed.
PathStrings ==
    {<<"api", "v1">>, <<"api", "v1", "users">>, <<"v2", "users">>, <<"users">>,
     <<"v10", "v2", "x">>}
RequestUrls == {<<>>, <<"v2", "items">>, <<"api", "v1">>}
Requests == [url : RequestUrls, header : {"None", "3"}, param : {"None", "1"}]

DistinctSeqs(S, n) ==
    UNION {{q \in [1..k -> S] : \A i, j \in 1..k : i # j => q[i] # q[j]} : k \in 0..n}

IdentifyVersioning ==
    /\ ~versioning.done
    /\ versioning' = [done |-> TRUE,
                      v |-> versioning_info(recognizer.paths, recognizer.http_interactions)]
    /\ UNCHANGED recognizer
    /\ UNCHANGED <<cacheVars, procVars, classVars, dedupVars, normVars, sigVars, confVars,
                   scoreVars, crawlVars>>

InitVersioning ==
    /\ recognizer \in [paths : DistinctSeqs(PathStrings, MaxPaths),
                       http_interactions : UNION {[1..k -> Requests] : k \in 0..MaxRequests}]
    /\ versioning = [done |-> FALSE]
    /\ InitCache({}) /\ IdleProcess /\ IdleClassify /\ IdleDedup /\ IdleNormalize
    /\ IdleSignature /\ IdleConfidence /\ IdleScore /\ IdleCrawl

NextVersioning == IdentifyVersioning

SpecVersioning == InitVersioning /\ [][NextVersioning]_vars

(***************************************************************************)
(* WebsiteAnalyzer.analyze: the crawl.  The website is a finite link       *)
(* graph; a fetch of a URL in 'fails' returns None, a fetch of any other   *)
(* URL returns a page with text.  One step is one pass of the while loop;  *)
(* the last step fetches sitemap.xml and robots.txt and returns.  The text *)
(* snippets are left out.                                                  *)
(***************************************************************************)
MaxDepth == 2
MaxLinks == 2

BaseUrl == "http://site"
PageA == "http://site/a"
PageB == "http://site/b"
External == "http://other/x"
\* urljoin(self.base_url, '/sitemap.xml') and urljoin(self.base_url, '/robots.txt')
SitemapUrl == "http://site/sitemap.xml"
RobotsUrl == "http://site/robots.txt"

CrawlUrls == {BaseUrl, PageA, PageB, SitemapUrl, External}
\* 'self.base_url in link'
SameSite == {BaseUrl, PageA, PageB, SitemapUrl, RobotsUrl}

\* sorted() on the URL strings.
UrlOrder == <<External, BaseUrl, PageA, PageB, RobotsUrl, SitemapUrl>>
sorted_urls(S) == SelectSeq(UrlOrder, LAMBDA u : u \in S)

\* extract_links(soup, current_url): the set of absolute links of the page.
extract_links(st, current_url) ==
    IF current_url \in DOMAIN st.links THEN st.links[current_url] ELSE {}

\* fetch_and_parse_html(url) is a soup unless the fetch fails.
fetch_and_parse_html(st, url) == url \notin st.fails

\* 'for link in links' walks a set: any order.
Orders(S) == {q \in [1..Cardinality(S) -> S] : \A i, j \in 1..Cardinality(S) : i # j => q[i] # q[j]}

NoCrawl ==
    [pc |-> "ready", crawl_depth |-> 0, queue |-> <<>>, visited_urls |-> {},
     discovered_urls |-> {}, html_fetches |-> <<>>, url_fetches |-> <<>>, urls |-> <<>>]

\* One pass of the loop without the visited_urls test.
crawl_step_revisit(c, st, order) ==
    LET current_url == Head(c.queue)[1]
        depth == Head(c.queue)[2]
        soup == fetch_and_parse_html(st, current_url)
        links == IF soup /\ depth < c.crawl_depth
                 THEN SelectSeq(order, LAMBDA link : link \in SameSite)
                 ELSE <<>>
    IN  [c EXCEPT !.queue = Tail(c.queue) \o [i \in 1..Len(links) |-> <<links[i], depth + 1>>],
                  !.visited_urls = @ \cup {current_url},
                  !.discovered_urls = IF soup THEN @ \cup {current_url} ELSE @,
                  !.html_fetches = Append(@, current_url),
                  !.url_fetches = Append(@, current_url)]

\* One pass of 'while queue:'.
crawl_step(c, st, order) ==
    LET current_url == Head(c.queue)[1]
        depth == Head(c.queue)[2]
        visited_urls == c.visited_urls \cup {current_url}
        soup == fetch_and_parse_html(st, current_url)
        links == IF soup /\ depth < c.crawl_depth
                 THEN SelectSeq(order, LAMBDA link : link \notin visited_urls /\ link \in SameSite)
                 ELSE <<>>
    IN  IF current_url \in c.visited_urls THEN [c EXCEPT !.queue = Tail(c.queue)]
        ELSE [c EXCEPT !.queue = Tail(c.queue) \o [i \in 1..Len(links) |-> <<links[i], depth + 1>>],
                       !.visited_urls = visited_urls,
                       !.discovered_urls = IF soup THEN @ \cup {current_url} ELSE @,
                       !.html_fetches = Append(@, current_url),
                       !.url_fetches = Append(@, current_url)]

\* analyze(crawl_depth) up to the loop.
Analyze(crawl_depth) ==
    /\ crawl.pc = "ready"
    /\ crawl' = [NoCrawl EXCEPT !.pc = "loop", !.crawl_depth = crawl_depth,
                                !.queue = <<<<BaseUrl, 0>>>>]
    /\ UNCHANGED site
    /\ UNCHANGED <<cacheVars, procVars, classVars, dedupVars, normVars, sigVars, confVars,
                   scoreVars, versVars>>

Iterate ==
    /\ crawl.pc = "loop" /\ crawl.queue # <<>>
    /\ \E order \in Orders(extract_links(site, Head(crawl.queue)[1])) :
           crawl' = crawl_step(crawl, site, order)
    /\ UNCHANGED site
    /\ UNCHANGED <<cacheVars, procVars, classVars, dedupVars, normVars, sigVars, confVars,
                   scoreVars, versVars>>

\* After the loop: find_sitemap_urls(), find_interesting_robots_paths(), return.
Finish ==
    /\ crawl.pc = "loop" /\ crawl.queue = <<>>
    /\ crawl' = [crawl EXCEPT !.pc = "done",
                              !.url_fetches = @ \o <<SitemapUrl, RobotsUrl>>,
                              !.discovered_urls = @ \cup site.sitemap \cup site.robots,
                              !.urls = sorted_urls(crawl.discovered_urls \cup site.sitemap
                                                       \cup site.robots)]
    /\ UNCHANGED site
    /\ UNCHANGED <<cacheVars, procVars, classVars, dedupVars, normVars, sigVars, confVars,
                   scoreVars, versVars>>

LinkSets == {S \in SUBSET CrawlUrls : Cardinality(S) <= MaxLinks}

InitCrawl ==
    /\ site \in [links : [{BaseUrl, PageA} -> LinkSets],
                 fails : {{}, {BaseUrl}, {PageA}, {PageB}},
                 sitemap : {{}, {PageA}},
                 robots : {{}, {PageB}}]
    /\ crawl = NoCrawl
    /\ InitCache({}) /\ IdleProcess /\ IdleClassify /\ IdleDedup /\ IdleNormalize
    /\ IdleSignature /\ IdleConfidence /\ IdleScore /\ IdleVersioning

NextCrawl ==
    \/ \E d \in 0..MaxDepth : Analyze(d)
    \/ Iterate
    \/ Finish

\* The call runs to its end: every statement that can run does.
SpecCrawl == InitCrawl /\ [][NextCrawl]_vars /\ WF_vars(NextCrawl)

(***************************************************************************)
(* ResultProcessor.process_results                                         *)
(***************************************************************************)

\* The attributes of a ResultCache instance.
ResultCacheAttributes ==
    {"cache_dir", "cache_file_path", "max_age_seconds", "_db", "_open_db",
     "_close_db", "__enter__", "__exit__", "_generate_key", "get", "put",
     "clear_stale", "clear_all", "close"}

\* The attributes of an APIPatternRecognizer instance.
APIPatternRecognizerAttributes ==
    {"openapi_spec", "http_interactions", "identify_all_patterns", "_get_from_spec",
     "identify_naming_conventions", "identify_versioning", "identify_authentication",
     "identify_pagination", "identify_data_formats", "identify_http_methods",
     "identify_status_codes"}

\* The data argument: a dict (read as an OpenAPI document through openapi,
\* with its 'url' entry), a list of interactions, or a string.
DataSpecTest   == [kind |-> "dict", openapi |-> SpecTest, url |-> Missing, items |-> <<>>]
DataSpecSample == [kind |-> "dict", openapi |-> SpecSample, url |-> Missing, items |-> <<>>]
DataEmpty      == [kind |-> "dict", openapi |-> NoSpec, url |-> Missing, items |-> <<>>]
DataNoUrl      == [kind |-> "dict",
                   openapi |-> [present |-> TRUE, title |-> FALSE, paths |-> <<>>,
                                securitySchemes |-> FALSE],
                   url |-> Missing, items |-> <<>>]
DataUrl        == [kind |-> "dict",
                   openapi |-> [present |-> TRUE, title |-> FALSE, paths |-> <<>>,
                                securitySchemes |-> FALSE],
                   url |-> Str(<<"http://", "example.com">>), items |-> <<>>]
DataTraffic    == [kind |-> "list", openapi |-> NoSpec, url |-> Missing,
                   items |-> <<"GET", "post">>]
DataString     == [kind |-> "str", openapi |-> NoSpec, url |-> Missing, items |-> <<>>]

DataValues == {DataSpecTest, DataSpecSample, DataEmpty, DataNoUrl, DataUrl,
               DataTraffic, DataString}
DiscoveryMethods == {"openapi_spec", "mitmproxy", "website_analysis", "combined_source"}
SpecArgs == {NoSpec, SpecSample}
InteractionArgs == {<<>>, <<"GET">>}

\* The key of (discovery_method, data): the params the cache is asked for.
generate_key(discovery_method, data) ==
    <<<<"data", data>>, <<"discovery_method", discovery_method>>>>

NoReport == [discovery_method |-> "", confidence_score |-> -1,
             spec_methods |-> [m \in {} |-> 0], api_conventions |-> FALSE]

\* What one call of process_results did.
Result(outcome, error, status_code, report, from_cache, rc, ri, si, st, h) ==
    [outcome |-> outcome, error |-> error, status_code |-> status_code,
     report |-> report, from_cache |-> from_cache,
     recognizer_constructed |-> rc, recognizer_invoked |-> ri,
     scorer_invoked |-> si, store |-> st, db |-> h]

\* Lines 157-158: cache the report and return it.
CacheAndReturn(report, ri, cache_key, st, h, t) ==
    IF "set" \notin ResultCacheAttributes
    THEN Result("AttributeError", "", 0, NoReport, FALSE, TRUE, ri, TRUE, st, h)
    ELSE Result("return", "", 0, report, FALSE, TRUE, ri, TRUE,
                put(st, cache_key, report, t), h)

\* Lines 46-158: the path of a cache miss.
process_miss(discovery_method, data, openapi_spec, http_interactions, cache_key, st, h, t) ==
    LET current_openapi_spec ==
            IF discovery_method = "openapi_spec" /\ data.kind = "dict"
            THEN data.openapi ELSE openapi_spec
        current_http_interactions ==
            IF discovery_method = "mitmproxy" /\ data.kind = "list"
            THEN data.items ELSE http_interactions
        all == identify_all_patterns(current_openapi_spec, current_http_interactions)
        Report(patterns, source_type) ==
            [discovery_method |-> discovery_method,
             confidence_score |-> score(patterns, source_type, current_openapi_spec,
                                        current_http_interactions),
             spec_methods |-> patterns.spec_methods,
             api_conventions |-> patterns.run]
    IN
    IF discovery_method = "openapi_spec" THEN
        IF current_openapi_spec.present
        THEN CacheAndReturn(Report(all, "openapi"), TRUE, cache_key, st, h, t)
        ELSE CacheAndReturn(Report(NoPatterns, "openapi"), FALSE, cache_key, st, h, t)
    ELSE IF discovery_method = "mitmproxy" THEN
        IF current_http_interactions # <<>>
        THEN CacheAndReturn(Report(all, "http_interactions"), TRUE, cache_key, st, h, t)
        ELSE CacheAndReturn(Report(NoPatterns, "http_interactions"), FALSE, cache_key, st, h, t)
    ELSE IF discovery_method = "website_analysis" THEN
        IF data.kind # "dict"
        THEN Result("AttributeError", "", 0, NoReport, FALSE, TRUE, FALSE, FALSE, st, h)
        ELSE IF data.url.t # "str" \/ data.url.v = <<>>
        THEN Result("return", "URL not provided for website analysis", 400, NoReport,
                    FALSE, TRUE, FALSE, FALSE, st, h)
        ELSE \* WebsiteAnalyzer(url).analyze(crawl_depth=1), then line 123
             IF "recognize_from_website_data" \notin APIPatternRecognizerAttributes
             THEN Result("AttributeError", "", 0, NoReport, FALSE, TRUE, FALSE, FALSE, st, h)
             ELSE CacheAndReturn(Report(NoPatterns, "website"), TRUE, cache_key, st, h, t)
    ELSE
        IF current_openapi_spec.present \/ current_http_interactions # <<>>
        THEN CacheAndReturn(Report(all, discovery_method), TRUE, cache_key, st, h, t)
        ELSE CacheAndReturn(Report(NoPatterns, discovery_method), FALSE, cache_key, st, h, t)

\* Lines 42-158, once line 41 has produced a key.
process_lookup(discovery_method, data, openapi_spec, http_interactions, st, h, t) ==
    LET cache_key == generate_key(discovery_method, data)
        cached_result == get(st, cache_key, t) IN
    IF cached_result.hit
    THEN Result("return", "", 0, cached_result.ret, TRUE, FALSE, FALSE, FALSE,
                cached_result.store, _open_db(h))
    ELSE process_miss(discovery_method, data, openapi_spec, http_interactions,
                      cache_key, cached_result.store, _open_db(h), t)

\* process_results(discovery_method, data, openapi_spec, http_interactions)
\* with the cache file as st, the handle as h, at time t.  Line 41 looks up
\* self.cache.generate_key.
process_results(discovery_method, data, openapi_spec, http_interactions, st, h, t) ==
    IF "generate_key" \notin ResultCacheAttributes
    THEN Result("AttributeError", "", 0, NoReport, FALSE, FALSE, FALSE, FALSE, st, h)
    ELSE process_lookup(discovery_method, data, openapi_spec, http_interactions, st, h, t)

\* Reports found in the cache file.
CachedReport == [discovery_method |-> "openapi_spec", confidence_score |-> 65,
                 spec_methods |-> [m \in {"GET"} |-> 1], api_conventions |-> TRUE]
CachedReports == {CachedReport}

\* The params whose entries the cache file of the processor may hold.
ProcessParams == {generate_key("openapi_spec", DataSpecTest),
                  generate_key("website_analysis", DataNoUrl)}

Process(discovery_method, data, openapi_spec, http_interactions) ==
    LET out == process_results(discovery_method, data, openapi_spec,
                               http_interactions, store, db, now) IN
    /\ procCall' = [discovery_method |-> discovery_method, data |-> data,
                    openapi_spec |-> openapi_spec,
                    http_interactions |-> http_interactions]
    /\ procOut' = [outcome |-> out.outcome, error |-> out.error,
                   status_code |-> out.status_code, report |-> out.report,
                   from_cache |-> out.from_cache,
                   recognizer_constructed |-> out.recognizer_constructed,
                   recognizer_invoked |-> out.recognizer_invoked,
                   scorer_invoked |-> out.scorer_invoked]
    /\ store' = out.store
    /\ db' = out.db
    /\ lastOp' = [op |-> "process_results", params |-> <<>>]
    /\ ret' = "None"
    /\ putLog' = KeepLog(out.store)
    /\ UNCHANGED <<now, instance, callers>>

InitProcess ==
    /\ InitCache(ProcessParams)
    /\ IdleProcess /\ IdleClassify /\ IdleDedup /\ IdleNormalize
    /\ IdleSignature /\ IdleConfidence /\ IdleScore /\ IdleVersioning /\ IdleCrawl

NextProcess ==
    \/ \E m \in DiscoveryMethods, d \in DataValues, s \in SpecArgs, i \in InteractionArgs :
          Process(m, d, s, i) /\ UNCHANGED <<classVars, dedupVars, normVars, sigVars, confVars, scoreVars, versVars, crawlVars>>
    \/ \E p \in ProcessParams, r \in CachedReports :
          Put(p, r) /\ UNCHANGED <<procVars, classVars, dedupVars, normVars, sigVars, confVars, scoreVars, versVars, crawlVars>>
    \/ Tick /\ UNCHANGED <<procVars, classVars, dedupVars, normVars, sigVars, confVars, scoreVars, versVars, crawlVars>>

SpecProcess == InitProcess /\ [][NextProcess]_vars

\* Two threads in process_results on one ResultProcessor.  A call stands
\* before line 41 (the key), line 42 (the lookup), line 46 (the analysis) or
\* line 157 (the write), or has returned or raised.
Callers == {"c1", "c2"}
ConcurrentData == {DataSpecTest, DataTraffic, DataUrl}

NoCall == [pc |-> "idle", discovery_method |-> "", data |-> DataEmpty,
           openapi_spec |-> NoSpec, http_interactions |-> <<>>,
           report |-> NoReport, puts |-> 0]

\* The next statement of the call c, on the cache file st with handle h at
\* time t: the call afterwards, the store and the handle.
process_step(c, st, h, t) ==
    LET cache_key == generate_key(c.discovery_method, c.data)
        Raise == [call |-> [c EXCEPT !.pc = "raised"], store |-> st, db |-> h]
    IN
    IF c.pc = "line41" THEN
        IF "generate_key" \notin ResultCacheAttributes THEN Raise
        ELSE [call |-> [c EXCEPT !.pc = "line42"], store |-> st, db |-> h]
    ELSE IF c.pc = "line42" THEN
        LET cached_result == get(st, cache_key, t) IN
        IF cached_result.hit
        THEN [call |-> [c EXCEPT !.pc = "returned", !.report = cached_result.ret],
              store |-> cached_result.store, db |-> _open_db(h)]
        ELSE [call |-> [c EXCEPT !.pc = "line46"],
              store |-> cached_result.store, db |-> _open_db(h)]
    ELSE IF c.pc = "line46" THEN
        LET out == process_miss(c.discovery_method, c.data, c.openapi_spec,
                                c.http_interactions, cache_key, st, h, t) IN
        IF out.outcome = "AttributeError" /\ ~out.scorer_invoked THEN Raise
        ELSE IF out.error # ""
        THEN [call |-> [c EXCEPT !.pc = "returned"], store |-> st, db |-> h]
        ELSE [call |-> [c EXCEPT !.pc = "line157", !.report = out.report],
              store |-> st, db |-> h]
    ELSE \* line 157
        IF "set" \notin ResultCacheAttributes THEN Raise
        ELSE [call |-> [c EXCEPT !.pc = "returned", !.puts = 1],
              store |-> put(st, cache_key, c.report, t), db |-> _open_db(h)]

\* A thread calls process_results(discovery_method, data, openapi_spec,
\* http_interactions).
Call(c, discovery_method, data, openapi_spec, http_interactions) ==
    /\ callers[c].pc = "idle"
    /\ callers' = [callers EXCEPT ![c] =
                      [NoCall EXCEPT !.pc = "line41",
                                     !.discovery_method = discovery_method,
                                     !.data = data, !.openapi_spec = openapi_spec,
                                     !.http_interactions = http_interactions]]
    /\ UNCHANGED <<cacheVars, procCall, procOut>>

\* The thread of the call c runs its next statement.
Step(c) ==
    LET out == process_step(callers[c], store, db, now) IN
    /\ callers[c].pc \in {"line41", "line42", "line46", "line157"}
    /\ callers' = [callers EXCEPT ![c] = out.call]
    /\ store' = out.store
    /\ db' = out.db
    /\ putLog' = KeepLog(out.store)
    /\ lastOp' = [op |-> "process_results", params |-> <<>>]
    /\ UNCHANGED <<now, ret, instance, procCall, procOut>>

InitConcurrent ==
    /\ InitCache({})
    /\ procCall = <<>> /\ procOut = <<>>
    /\ callers = [c \in Callers |-> NoCall]
    /\ IdleClassify /\ IdleDedup /\ IdleNormalize
    /\ IdleSignature /\ IdleConfidence /\ IdleScore /\ IdleVersioning /\ IdleCrawl

NextConcurrent ==
    \/ \E c \in Callers, m \in DiscoveryMethods, d \in ConcurrentData,
          s \in SpecArgs, i \in InteractionArgs :
          Call(c, m, d, s, i) /\ UNCHANGED <<classVars, dedupVars, normVars, sigVars, confVars, scoreVars, versVars, crawlVars>>
    \/ \E c \in Callers : Step(c) /\ UNCHANGED <<classVars, dedupVars, normVars, sigVars, confVars, scoreVars, versVars, crawlVars>>

SpecConcurrent == InitConcurrent /\ [][NextConcurrent]_vars

(***************************************************************************)
(* categorizer.py                                                          *)
(*                                                                         *)
(* A string that the code searches or takes apart is a sequence of tokens; *)
(* a substring test asks for a token, a prefix test for the first token.   *)
(***************************************************************************)

\* str.lower() on the tokens in use.
LowerTok(tok) == CASE tok = "WSS://" -> "wss://"
                   [] tok = "HTTPS://" -> "https://"
                   [] tok = "HTTP://" -> "http://"
                   [] tok = "WWW." -> "www."
                   [] tok = "?WSDL" -> "?wsdl"
                   [] tok = "/GraphQL" -> "/graphql"
                   [] tok = "Content-Type" -> "content-type"
                   [] tok = "Application/JSON" -> "application/json"
                   [] tok = "<soap:Envelope" -> "<soap:envelope"
                   [] tok = "Example.com" -> "example.com"
                   [] tok = "/A" -> "/a"
                   [] tok = "GET" -> "get"
                   [] tok = "POST" -> "post"
                   [] OTHER -> tok

RECURSIVE Lower(_)
Lower(s) == IF s = <<>> THEN <<>> ELSE <<LowerTok(Head(s))>> \o Lower(Tail(s))

Contains(s, tok) == tok \in SeqToSet(s)
StartsWith(s, tok) == s # <<>> /\ Head(s) = tok
EndsWith(s, tok) == s # <<>> /\ s[Len(s)] = tok

RECURSIVE LStrip(_)
LStrip(s) == IF s # <<>> /\ Head(s) = " " THEN LStrip(Tail(s)) ELSE s

RECURSIVE RStrip(_)
RStrip(s) == IF s # <<>> /\ s[Len(s)] = " " THEN RStrip(SubSeq(s, 1, Len(s) - 1)) ELSE s

\* str.strip()
Strip(s) == RStrip(LStrip(s))

\* str(x) for a value that is not a string; a dict carries its rendering.
PyStr(x) == CASE x.t = "str" -> x.v
              [] x.t = "None" -> <<"None">>
              [] x.t = "int" -> <<"5">>
              [] OTHER -> x.v

\* dict.get(name, default)
GetOr(x, default) == IF x.t = "missing" THEN default ELSE x

NON_API_CONTENT_TYPES ==
    {"text/html", "image/jpeg", "image/png", "image/gif", "text/css",
     "application/javascript", "application/pdf"}

DEFINITELY_REST_CONTENT_TYPES ==
    {"application/json", "application/xml", "text/xml", "application/octet-stream",
     "text/plain", "application/x-www-form-urlencoded"}

\* The media types that start with 'application/'.
ApplicationTypes ==
    {"application/json", "application/xml", "application/octet-stream",
     "application/x-www-form-urlencoded", "application/javascript", "application/pdf",
     "application/graphql", "application/soap+xml", "application/custom"}

\* The loop over headers.items(): k.lower() fails on a key that is no string.
RECURSIVE ScanHeaders(_)
ScanHeaders(items) ==
    IF items = <<>> THEN [raised |-> FALSE, v |-> <<>>]
    ELSE LET k == Head(items)[1]
             val == Head(items)[2] IN
         IF k.t # "str" THEN [raised |-> TRUE, v |-> <<>>]
         ELSE IF Lower(k.v) = <<"content-type">> /\ val.t = "str"
              THEN [raised |-> FALSE, v |-> Lower(val.v)]
              ELSE ScanHeaders(Tail(items))

_get_content_type(e) ==
    LET headers == GetOr(e.response_headers, [t |-> "dict", v |-> <<>>]) IN
    IF headers.t = "dict" THEN ScanHeaders(headers.v)
    ELSE [raised |-> FALSE, v |-> <<>>]

_check_websocket(e) ==
    IF e.url.t # "str" \/ e.url.v = <<>> THEN FALSE
    ELSE StartsWith(Lower(e.url.v), "ws://") \/ StartsWith(Lower(e.url.v), "wss://")

\* "True", "False", or "AttributeError" when method.upper() or k.lower() fails.
_check_graphql(e) ==
    LET url == IF e.url.t = "str" THEN Lower(e.url.v) ELSE <<>>
        m == GetOr(e.method, Str(<<>>))
        content_type == _get_content_type(e)
        request_body == PyStr(GetOr(e.request_body, Str(<<>>)))
        response_body == PyStr(GetOr(e.response_body, Str(<<>>)))
        method == UpperAll(m.v)
    IN
    IF m.t # "str" \/ content_type.raised THEN "AttributeError"
    ELSE IF EndsWith(url, "/graphql") THEN "True"
    ELSE IF Contains(content_type.v, "application/graphql") THEN "True"
    ELSE IF method = <<"POST">>
            /\ (Contains(request_body, "query") \/ Contains(request_body, "mutation"))
         THEN "True"
    ELSE IF method = <<"POST">>
            /\ \/ (Contains(response_body, "\"data\":") /\ Contains(response_body, "\"errors\":"))
               \/ (/\ Contains(response_body, "\"data\":")
                   /\ ~Contains(response_body, "\"errors\":")
                   /\ StartsWith(Strip(response_body), "{"))
         THEN "True"
    ELSE "False"

_check_soap(e) ==
    LET url == IF e.url.t = "str" THEN Lower(e.url.v) ELSE <<>>
        content_type == _get_content_type(e)
        response_body_str == GetOr(e.response_body, Str(<<>>))
        response_body == IF response_body_str.t = "str" THEN Lower(response_body_str.v)
                         ELSE <<>>
        is_soap_content_type == Contains(content_type.v, "application/soap+xml")
        is_text_xml_content_type == Contains(content_type.v, "text/xml")
        has_soap_envelope == \/ Contains(response_body, "<soap:envelope")
                             \/ Contains(response_body, "<soapenv:envelope")
                             \/ Contains(response_body, "<s:envelope")
    IN
    IF content_type.raised THEN "AttributeError"
    ELSE IF Contains(url, "?wsdl") THEN "True"
    ELSE IF is_soap_content_type THEN "True"
    ELSE IF is_text_xml_content_type /\ has_soap_envelope THEN "True"
    ELSE IF content_type.v = <<>> /\ has_soap_envelope THEN "True"
    ELSE "False"

\* The tokens that open a query string.
QueryTokens == {"?wsdl", "?q=1"}

\* url.split("?", 1)[0]
RECURSIVE PathOf(_)
PathOf(s) == IF s = <<>> \/ Head(s) \in QueryTokens THEN <<>>
             ELSE <<Head(s)>> \o PathOf(Tail(s))

\* The endings of line 231.
StaticExtensions ==
    {".html", ".htm", ".css", ".js", ".png", ".jpg", ".jpeg", ".gif", ".pdf",
     ".txt", ".ico", ".svg", ".woff", ".woff2", ".ttf", ".eot"}

common_methods == {"GET", "POST", "PUT", "DELETE", "PATCH", "OPTIONS", "HEAD"}

_check_rest(e) ==
    LET m == GetOr(e.method, Str(<<>>))
        method == UpperAll(m.v)
        content_type == _get_content_type(e)
        url == IF e.url.t = "str" THEN e.url.v ELSE <<>>
        openapi_spec == e.openapi_spec
        path_lower == PathOf(Lower(url))
    IN
    IF m.t # "str" \/ content_type.raised THEN "AttributeError"
    ELSE IF openapi_spec.t = "dict" /\ Contains(openapi_spec.v, "openapi") THEN "True"
    ELSE IF \E ct \in NON_API_CONTENT_TYPES : Contains(content_type.v, ct) THEN "False"
    ELSE IF \E ct \in DEFINITELY_REST_CONTENT_TYPES : Contains(content_type.v, ct) THEN "True"
    ELSE IF /\ Len(method) = 1 /\ method[1] \in common_methods
            /\ url # <<>>
            /\ (content_type.v = <<>> \/ Head(content_type.v) \in ApplicationTypes)
            /\ ~(path_lower # <<>> /\ path_lower[Len(path_lower)] \in StaticExtensions)
         THEN "True"
    ELSE "False"

\* categorize_api_type(endpoint_data): a tag, or "AttributeError" when a
\* check raises.
categorize_api_type(e) ==
    IF e.kind # "dict" THEN "Unknown"
    ELSE IF e.url.t # "str" \/ Strip(e.url.v) = <<>> THEN "Unknown"
    ELSE IF _check_websocket(e) THEN "WebSocket"
    ELSE IF _check_graphql(e) # "False"
         THEN (IF _check_graphql(e) = "True" THEN "GraphQL" ELSE "AttributeError")
    ELSE IF _check_soap(e) # "False"
         THEN (IF _check_soap(e) = "True" THEN "SOAP" ELSE "AttributeError")
    ELSE IF _check_rest(e) # "False"
         THEN (IF _check_rest(e) = "True" THEN "REST" ELSE "AttributeError")
    ELSE "Unknown"

\* The inputs of the classifier.
UrlValues ==
    {Missing, PyNone, PyInt, Str(<<>>), Str(<<" ">>),
     Str(<<"ws://", "h", "/socket">>), Str(<<"WSS://", "h", "/graphql">>),
     Str(<<"http://", "h", "/graphql">>), Str(<<"http://", "h", "/svc", "?WSDL">>),
     Str(<<"http://", "h", "/api">>), Str(<<"http://", "h", "/page", ".html", "?q=1">>)}
MethodValues == {Missing, PyNone, PyInt, Str(<<"GET">>), Str(<<"post">>), Str(<<"TRACE">>)}
HeaderValues ==
    {Missing, PyNone}
    \cup {[t |-> "dict", v |-> <<<<Str(<<"Content-Type">>), ct>>>>] :
            ct \in {Str(<<"Application/JSON">>), Str(<<"text/xml">>),
                    Str(<<"application/soap+xml">>), Str(<<"application/graphql">>),
                    Str(<<"text/html">>), Str(<<"application/custom">>), PyNone}}
    \cup {[t |-> "dict", v |-> <<<<PyInt, Str(<<"x">>)>>,
                                 <<Str(<<"content-type">>), Str(<<"application/json">>)>>>>]}
RequestBodies == {Missing, PyNone, Str(<<"{", "query", "}">>)}
ResponseBodies ==
    {Missing, PyNone, Str(<<" ", "{", "\"data\":", "}">>),
     Str(<<"{", "\"data\":", "\"errors\":", "}">>), Str(<<"<soap:Envelope", ">">>),
     [t |-> "dict", v |-> <<"{", "'data':", "}">>]}
OpenApiValues == {Missing, [t |-> "dict", v |-> <<"openapi">>], [t |-> "dict", v |-> <<>>]}

Endpoint(kind, url, method, headers, request_body, response_body, openapi_spec) ==
    [kind |-> kind, url |-> url, method |-> method, response_headers |-> headers,
     request_body |-> request_body, response_body |-> response_body,
     openapi_spec |-> openapi_spec]

NonMappings ==
    {Endpoint(k, Missing, Missing, Missing, Missing, Missing, Missing) :
        k \in {"None", "list", "str"}}

EndpointInputs ==
    NonMappings
    \cup {Endpoint("dict", u, m, h, rq, rs, o) :
            u \in UrlValues, m \in MethodValues, h \in HeaderValues,
            rq \in RequestBodies, rs \in ResponseBodies, o \in OpenApiValues}

ApiTypes == {"REST", "GraphQL", "SOAP", "WebSocket", "Unknown"}

Categorize ==
    /\ api_type = "pending"
    /\ api_type' = categorize_api_type(endpoint_data)
    /\ UNCHANGED endpoint_data

InitClassify ==
    /\ InitCache({})
    /\ IdleProcess /\ IdleDedup /\ IdleNormalize
    /\ IdleSignature /\ IdleConfidence /\ IdleScore /\ IdleVersioning /\ IdleCrawl
    /\ endpoint_data \in EndpointInputs
    /\ api_type = "pending"

NextClassify ==
    Categorize /\ UNCHANGED <<cacheVars, procVars, dedupVars, normVars, sigVars, confVars, scoreVars, versVars, crawlVars>>

SpecClassify == InitClassify /\ [][NextClassify]_vars

(***************************************************************************)
(* deduplicator.py                                                         *)
(***************************************************************************)

\* The longest url, in tokens, and the longest list of endpoints.
MaxUrlLen == 3
MaxEndpoints == 3

SchemeTokens == {"http://", "https://", "ws://", "wss://"}

\* rstrip('/') on one token.
RStripSlashTok(tok) == CASE tok = "http://" -> "http:"
                         [] tok = "https://" -> "https:"
                         [] tok = "ws://" -> "ws:"
                         [] tok = "wss://" -> "wss:"
                         [] OTHER -> tok

\* str.rstrip('/')
RECURSIVE RStripSlash(_)
RStripSlash(s) ==
    IF s = <<>> THEN <<>>
    ELSE IF s[Len(s)] = "/" THEN RStripSlash(SubSeq(s, 1, Len(s) - 1))
    ELSE SubSeq(s, 1, Len(s) - 1) \o <<RStripSlashTok(s[Len(s)])>>

\* normalize_url(url): the normalized string.
normalize_url(url) ==
    IF url.t # "str" \/ url.v = <<>> THEN <<>>
    ELSE LET lowered == Lower(url.v)
             no_scheme == IF Head(lowered) \in SchemeTokens THEN Tail(lowered) ELSE lowered
             no_www == IF StartsWith(no_scheme, "www.") THEN Tail(no_scheme) ELSE no_scheme
         IN RStripSlash(no_www)

NoneSignature == [t |-> "None", url |-> <<>>, method |-> <<>>]

\* A get_endpoint_signature that leaves the method as it was written.
get_endpoint_signature_noupper(endpoint_arg) ==
    IF endpoint_arg.url.t # "str" \/ normalize_url(endpoint_arg.url) = <<>> THEN NoneSignature
    ELSE IF endpoint_arg.method.t = "str" /\ endpoint_arg.method.v # <<>>
         THEN [t |-> "tuple", url |-> normalize_url(endpoint_arg.url),
               method |-> endpoint_arg.method.v]
         ELSE [t |-> "str", url |-> normalize_url(endpoint_arg.url), method |-> <<>>]

\* get_endpoint_signature(endpoint): a (url, METHOD) tuple, a url string, or None.
get_endpoint_signature(endpoint) ==
    LET method == endpoint.method IN
    IF endpoint.url.t # "str" \/ endpoint.url.v = <<>> THEN NoneSignature
    ELSE IF normalize_url(endpoint.url) = <<>> THEN NoneSignature
    ELSE IF method.t = "str" /\ method.v # <<>>
         THEN [t |-> "tuple", url |-> normalize_url(endpoint.url), method |-> UpperAll(method.v)]
         ELSE [t |-> "str", url |-> normalize_url(endpoint.url), method |-> <<>>]

\* A deduplicate_endpoints that forgets the signatures it has seen.
deduplicate_endpoints_keepall(endpoints_arg) ==
    SelectSeq(endpoints_arg,
              LAMBDA e : e.kind = "dict" /\ get_endpoint_signature(e) # NoneSignature)

\* A loop that forgets a signature once it has dropped a record for it.
RECURSIVE DedupLoop_forget(_, _, _)
DedupLoop_forget(rest, seen_signatures, unique) ==
    IF rest = <<>> THEN unique
    ELSE LET e == Head(rest)
             sig == get_endpoint_signature(e) IN
         IF e.kind # "dict" \/ sig = NoneSignature
         THEN DedupLoop_forget(Tail(rest), seen_signatures, unique)
         ELSE IF sig \notin seen_signatures
              THEN DedupLoop_forget(Tail(rest), seen_signatures \cup {sig}, Append(unique, e))
              ELSE DedupLoop_forget(Tail(rest), seen_signatures \ {sig}, unique)

\* The loop of lines 135-142 over the rest of the list.
RECURSIVE DedupLoop(_, _, _)
DedupLoop(rest, seen_signatures, unique) ==
    IF rest = <<>> THEN unique
    ELSE LET endpoint == Head(rest)
             signature == get_endpoint_signature(endpoint) IN
         IF endpoint.kind # "dict" THEN DedupLoop(Tail(rest), seen_signatures, unique)
         ELSE IF signature # NoneSignature /\ signature \notin seen_signatures
              THEN DedupLoop(Tail(rest), seen_signatures \cup {signature},
                             Append(unique, endpoint))
              ELSE DedupLoop(Tail(rest), seen_signatures, unique)

deduplicate_endpoints(endpoints_arg) ==
    IF endpoints_arg = <<>> THEN <<>> ELSE DedupLoop(endpoints_arg, {}, <<>>)

\* The tokens urls are made of.
UrlTokens == {"http://", "HTTPS://", "ws://", "www.", "WWW.", "example.com",
              "Example.com", "/a", "/A", "/"}

RECURSIVE SeqsUpTo(_, _)
SeqsUpTo(S, n) ==
    IF n = 0 THEN {<<>>}
    ELSE LET shorter == SeqsUpTo(S, n - 1) IN
         shorter \cup {Append(q, x) : q \in shorter, x \in S}

RawUrls == {PyNone, PyInt} \cup {Str(q) : q \in SeqsUpTo(UrlTokens, MaxUrlLen)}

Normalize ==
    /\ ~normalized.done
    /\ normalized' = [done |-> TRUE, v |-> normalize_url(raw_url)]
    /\ UNCHANGED raw_url

InitNormalize ==
    /\ InitCache({})
    /\ IdleProcess /\ IdleClassify /\ IdleDedup
    /\ IdleSignature /\ IdleConfidence /\ IdleScore /\ IdleVersioning /\ IdleCrawl
    /\ raw_url \in RawUrls
    /\ normalized = [done |-> FALSE, v |-> <<>>]

NextNormalize ==
    Normalize /\ UNCHANGED <<cacheVars, procVars, classVars, dedupVars, sigVars, confVars, scoreVars, versVars, crawlVars>>

SpecNormalize == InitNormalize /\ [][NextNormalize]_vars

\* The items of the lists handed to deduplicate_endpoints; data tells apart
\* records that agree on url and method.
Record(url_val, method, data) ==
    [kind |-> "dict", url |-> url_val, method |-> method, data |-> data]

UrlA  == Str(<<"http://", "example.com", "/a">>)
UrlA2 == Str(<<"HTTPS://", "WWW.", "Example.com", "/A", "/">>)
UrlWs == Str(<<"ws://", "example.com", "/a">>)
UrlWss == Str(<<"WSS://", "Example.com", "/a", "/">>)

EndpointItems ==
    {Record(UrlA, Str(<<"GET">>), 1), Record(UrlA2, Str(<<"get">>), 2),
     Record(UrlA, Str(<<"POST">>), 1), Record(UrlA, Missing, 1),
     Record(UrlA2, PyInt, 2), Record(UrlA, Str(<<>>), 3),
     Record(UrlWs, Missing, 4), Record(UrlWss, Str(<<"GET">>), 5),
     Record(Str(<<"http://", "/">>), Str(<<"GET">>), 1),
     Record(PyNone, Str(<<"GET">>), 1), Record(Missing, Missing, 1),
     [kind |-> "str", url |-> Missing, method |-> Missing, data |-> 0],
     [kind |-> "None", url |-> Missing, method |-> Missing, data |-> 0]}

\* The records handed to get_endpoint_signature.
SignatureMethods == {Missing, PyNone, PyInt, Str(<<>>), Str(<<"GET">>), Str(<<"get">>),
                     Str(<<"post">>)}
SignatureInputs == {Record(u, m, 1) : u \in RawUrls \cup {Missing}, m \in SignatureMethods}

Signature ==
    /\ ~sig_result.done
    /\ sig_result' = [done |-> TRUE, v |-> get_endpoint_signature(sig_endpoint)]
    /\ UNCHANGED sig_endpoint

InitSignature ==
    /\ InitCache({})
    /\ IdleProcess /\ IdleClassify /\ IdleDedup /\ IdleNormalize
    /\ IdleConfidence /\ IdleScore /\ IdleVersioning /\ IdleCrawl
    /\ sig_endpoint \in SignatureInputs
    /\ sig_result = [done |-> FALSE, v |-> <<>>]

NextSignature ==
    Signature /\ UNCHANGED <<cacheVars, procVars, classVars, dedupVars, normVars,
                             confVars, scoreVars, versVars, crawlVars>>

SpecSignature == InitSignature /\ [][NextSignature]_vars

Deduplicate ==
    /\ ~unique_endpoints.done
    /\ unique_endpoints' = [done |-> TRUE, v |-> deduplicate_endpoints(endpoints)]
    /\ UNCHANGED endpoints

InitDedup ==
    /\ InitCache({})
    /\ IdleProcess /\ IdleClassify /\ IdleNormalize
    /\ IdleSignature /\ IdleConfidence /\ IdleScore /\ IdleVersioning /\ IdleCrawl
    /\ endpoints \in SeqsUpTo(EndpointItems, MaxEndpoints)
    /\ unique_endpoints = [done |-> FALSE, v |-> <<>>]

NextDedup ==
    Deduplicate /\ UNCHANGED <<cacheVars, procVars, classVars, normVars, sigVars, confVars, scoreVars, versVars, crawlVars>>

SpecDedup == InitDedup /\ [][NextDedup]_vars

(***************************************************************************)
(* scoring.py                                                              *)
(*                                                                         *)
(* A float is the rational it stands for; the arithmetic is exact.  A      *)
(* datetime is the number of whole days it lies before now, negative when  *)
(* it lies in the future: the .days of line 48.                            *)
(***************************************************************************)

RECURSIVE GCD(_, _)
GCD(a, b) == IF b = 0 THEN a ELSE GCD(b, a % b)

Abs(x) == IF x < 0 THEN -x ELSE x

\* The rational n/d in lowest terms, d > 0.
Rat(n, d) ==
    LET g == GCD(Abs(n), d) IN
    IF n = 0 THEN [n |-> 0, d |-> 1] ELSE [n |-> n \div g, d |-> d \div g]

LCM(a, b) == (a \div GCD(a, b)) * b

RatAdd(a, b) ==
    LET l == LCM(a.d, b.d) IN Rat(a.n * (l \div a.d) + b.n * (l \div b.d), l)
RatSub(a, b) == RatAdd(a, [n |-> -b.n, d |-> b.d])
RatMul(a, b) ==
    LET g1 == GCD(Abs(a.n), b.d)
        g2 == GCD(Abs(b.n), a.d)
        h1 == IF g1 = 0 THEN 1 ELSE g1
        h2 == IF g2 = 0 THEN 1 ELSE g2 IN
    Rat((a.n \div h1) * (b.n \div h2), (a.d \div h2) * (b.d \div h1))
RatLe(a, b) ==
    LET l == LCM(a.d, b.d) IN a.n * (l \div a.d) <= b.n * (l \div b.d)
RatMin(a, b) == IF RatLe(a, b) THEN a ELSE b
RatMax(a, b) == IF RatLe(a, b) THEN b ELSE a

Zero == [n |-> 0, d |-> 1]
One == [n |-> 1, d |-> 1]
Half == [n |-> 1, d |-> 2]

\* SOURCE_RELIABILITY_SCORES, in hundredths.
SOURCE_RELIABILITY_SCORES ==
    [official_doc |-> 90, known_api_db |-> 80, partner_api |-> 75, internal_source |-> 95,
     blog |-> 50, forum |-> 30, code_repository |-> 60, web_search |-> 40, unknown |-> 20]

WEIGHTS == [completeness |-> Rat(30, 100), reliability |-> Rat(40, 100),
            recency |-> Rat(15, 100), validation |-> Rat(15, 100)]

MAX_RECENCY_SCORE == One
RECENCY_DECAY_RATE_PER_YEAR == [n |-> 1, d |-> 10]

\* A calculate_completeness_score that does not clamp the ratio.
calculate_completeness_score_unclamped(fields_present, total_expected_fields) ==
    IF total_expected_fields <= 0 THEN Zero
    ELSE Rat(fields_present, total_expected_fields)

calculate_completeness_score(fields_present, total_expected_fields) ==
    IF total_expected_fields <= 0 THEN Zero
    ELSE RatMin(RatMax(Rat(fields_present, total_expected_fields), Zero), One)

\* str.lower() on the source types in use.
LowerSource(source_type) ==
    IF source_type = "OFFICIAL_DOC" THEN "official_doc" ELSE source_type

calculate_reliability_score(source_type) ==
    IF LowerSource(source_type) \in DOMAIN SOURCE_RELIABILITY_SCORES
    THEN Rat(SOURCE_RELIABILITY_SCORES[LowerSource(source_type)], 100)
    ELSE Rat(SOURCE_RELIABILITY_SCORES["unknown"], 100)

\* discovery_timestamp: [t |-> "None" or "datetime", age_in_days |-> n].
calculate_recency_score(discovery_timestamp) ==
    IF discovery_timestamp.t = "None" THEN Half
    ELSE IF discovery_timestamp.age_in_days < 0 THEN MAX_RECENCY_SCORE
    ELSE LET age_in_years == Rat(discovery_timestamp.age_in_days * 4, 1461)
             decay_factor == RatMul(RECENCY_DECAY_RATE_PER_YEAR, age_in_years)
             recency_score == RatSub(MAX_RECENCY_SCORE, decay_factor) IN
         RatMin(RatMax(recency_score, Zero), MAX_RECENCY_SCORE)

\* validated: "None", "True" or "False".
calculate_validation_score(validated) ==
    IF validated = "None" THEN Half
    ELSE IF validated = "True" THEN One ELSE Zero

\* The metadata of result_data, {} when it has none, with the defaults of
\* the metadata.get calls for the entries that are absent.
MetadataGet(rd) ==
    [fields_present |-> IF rd.has_metadata /\ rd.fields_present.t = "int"
                        THEN rd.fields_present.n ELSE 0,
     total_expected_fields |-> IF rd.has_metadata /\ rd.total_expected_fields.t = "int"
                               THEN rd.total_expected_fields.n ELSE 0,
     source_type |-> IF rd.has_metadata /\ rd.source_type # "missing"
                     THEN rd.source_type ELSE "unknown",
     discovery_timestamp |-> IF rd.has_metadata /\ rd.discovery_timestamp.t = "datetime"
                             THEN rd.discovery_timestamp
                             ELSE [t |-> "None", age_in_days |-> 0],
     validated |-> IF rd.has_metadata /\ rd.validated # "missing"
                   THEN rd.validated ELSE "None"]

calculate_confidence(rd) ==
    LET metadata == MetadataGet(rd)
        completeness == calculate_completeness_score(metadata.fields_present,
                                                     metadata.total_expected_fields)
        reliability == calculate_reliability_score(metadata.source_type)
        recency == calculate_recency_score(metadata.discovery_timestamp)
        validation == calculate_validation_score(metadata.validated)
        weighted == RatAdd(RatAdd(RatMul(completeness, WEIGHTS.completeness),
                                  RatMul(reliability, WEIGHTS.reliability)),
                           RatAdd(RatMul(recency, WEIGHTS.recency),
                                  RatMul(validation, WEIGHTS.validation)))
    IN RatMin(RatMax(weighted, Zero), One)

\* The inputs of calculate_confidence.
NoInt == [t |-> "missing", n |-> 0]
IntVal(n) == [t |-> "int", n |-> n]
FieldsPresentValues == {NoInt} \cup {IntVal(n) : n \in {-5, 0, 5, 10, 12}}
TotalExpectedValues == {NoInt} \cup {IntVal(n) : n \in {-1, 0, 10}}
SourceTypeValues == {"missing", "official_doc", "OFFICIAL_DOC", "internal_source", "blog",
                     "forum", "unknown", "unknown_source_type"}
TimestampValues ==
    {[t |-> "missing", age_in_days |-> 0], [t |-> "None", age_in_days |-> 0]}
    \cup {[t |-> "datetime", age_in_days |-> n] : n \in {-30, 0, 30, 365, 1825, 3650, 3653, 4015}}
ValidatedValues == {"missing", "None", "True", "False"}

ResultData(has_metadata, f, t, s, ts, v) ==
    [has_metadata |-> has_metadata, fields_present |-> f, total_expected_fields |-> t,
     source_type |-> s, discovery_timestamp |-> ts, validated |-> v]

ResultDataInputs ==
    {ResultData(FALSE, NoInt, NoInt, "missing", [t |-> "missing", age_in_days |-> 0], "missing")}
    \cup {ResultData(TRUE, f, t, s, ts, v) :
            f \in FieldsPresentValues, t \in TotalExpectedValues, s \in SourceTypeValues,
            ts \in TimestampValues, v \in ValidatedValues}

Confidence ==
    /\ ~confidence_score.done
    /\ confidence_score' = [done |-> TRUE, v |-> calculate_confidence(result_data)]
    /\ UNCHANGED result_data

InitConfidence ==
    /\ InitCache({})
    /\ IdleProcess /\ IdleClassify /\ IdleDedup /\ IdleNormalize
    /\ IdleSignature /\ IdleScore /\ IdleVersioning /\ IdleCrawl
    /\ result_data \in ResultDataInputs
    /\ confidence_score = [done |-> FALSE, v |-> Zero]

NextConfidence ==
    Confidence /\ UNCHANGED <<cacheVars, procVars, classVars, dedupVars, normVars,
                              sigVars, scoreVars, versVars, crawlVars>>

SpecConfidence == InitConfidence /\ [][NextConfidence]_vars

(***************************************************************************)
(* Claims about the cache.                                                 *)
(***************************************************************************)

\* C1: a get(p) that follows put(p, d) before max_age_seconds have elapsed,
\* with no put, clear_stale eviction, clear_all or direct write on that key
\* in between, returns exactly d.
C1_CacheRoundTrip ==
    \A p \in DictParams :
        LET k == _generate_key(p) IN
        (/\ lastOp = [op |-> "get", params |-> p]
         /\ putLog[k] # NoPut
         /\ now - putLog[k].t <= MaxAge)
        => ret = putLog[k].d

\* A get under the reordered params returned the data put one second earlier.
C1_Witness ==
    /\ lastOp = [op |-> "get", params |-> ParamsBA]
    /\ putLog[_generate_key(ParamsAB)] = [d |-> "d2", t |-> 0, inst |-> 1]
    /\ now = 1
    /\ ret = "d2"

\* C2: a get(p) called when the entry stored by put(p, d) is older than
\* max_age_seconds returns None and leaves no entry under key(p).
C2_CacheExpiry ==
    [][\A p \in DictParams :
          LET k == _generate_key(p) IN
          (/\ Get(p)
           /\ k \in DOMAIN store
           /\ putLog[k] # NoPut
           /\ now - putLog[k].t > MaxAge)
          => (ret' = "None" /\ k \notin DOMAIN store')]_vars

\* A get found the entry of a put three seconds old and removed it.
C2_Witness ==
    /\ lastOp = [op |-> "get", params |-> ParamsC]
    /\ putLog[_generate_key(ParamsC)] = [d |-> "d1", t |-> 0, inst |-> 1]
    /\ now = MaxAge + 1
    /\ ret = "None"
    /\ _generate_key(ParamsC) \notin DOMAIN store


(***************************************************************************)
(* Claims about ResultProcessor.process_results.                           *)
(***************************************************************************)

\* The cache holds an entry under the key of (m, d) that was put no more
\* than max_age_seconds ago.
FreshEntry(m, d) ==
    LET k == _generate_key(generate_key(m, d)) IN
    /\ k \in DOMAIN store
    /\ k \in DOMAIN putLog
    /\ putLog[k].t >= 0
    /\ now - putLog[k].t <= MaxAge

\* C3: a call of process_results(m, d, ...) made while the cache holds a
\* fresh entry under the key of (m, d) returns that cached report unchanged,
\* and neither the pattern recognizer nor the scorer is invoked.
C3_CacheHit ==
    [][\A m \in DiscoveryMethods, d \in DataValues, s \in SpecArgs, i \in InteractionArgs :
          (Process(m, d, s, i) /\ FreshEntry(m, d))
          => /\ procOut'.outcome = "return"
             /\ procOut'.report = store[_generate_key(generate_key(m, d))].data
             /\ ~procOut'.recognizer_invoked
             /\ ~procOut'.scorer_invoked]_vars

\* C4: a call of process_results(m, d, ...) that misses the cache and is not
\* a website analysis returns a report and leaves that report in the cache
\* under the key of (m, d).
C4_CacheFill ==
    [][\A m \in DiscoveryMethods \ {"website_analysis"}, d \in DataValues,
          s \in SpecArgs, i \in InteractionArgs :
          (Process(m, d, s, i) /\ _generate_key(generate_key(m, d)) \notin DOMAIN store)
          => LET k == _generate_key(generate_key(m, d)) IN
             /\ procOut'.outcome = "return"
             /\ procOut'.report # NoReport
             /\ k \in DOMAIN store'
             /\ store'[k].data = procOut'.report]_vars

\* C5: a website_analysis call whose data has no url returns the error
\* 'URL not provided for website analysis' with status 400, leaves the cache
\* as it was, and neither constructs or invokes the pattern recognizer nor
\* calls the scorer.
C5_MissingUrl ==
    [][\A d \in {DataEmpty, DataNoUrl}, s \in SpecArgs, i \in InteractionArgs :
          (Process("website_analysis", d, s, i) /\ ~FreshEntry("website_analysis", d))
          => /\ procOut'.outcome = "return"
             /\ procOut'.error = "URL not provided for website analysis"
             /\ procOut'.status_code = 400
             /\ store' = store
             /\ ~procOut'.recognizer_constructed
             /\ ~procOut'.recognizer_invoked
             /\ ~procOut'.scorer_invoked]_vars

\* C6: on an empty cache, process_results('openapi_spec', d) for the document
\* d with the single operation GET /test returns a report whose spec_methods
\* is {GET: 1} and whose confidence_score is at least 50.
C6_OpenApiScenario ==
    [][(Process("openapi_spec", DataSpecTest, NoSpec, <<>>) /\ DOMAIN store = {})
          => /\ procOut'.outcome = "return"
             /\ procOut'.report.spec_methods = [m \in {"GET"} |-> 1]
             /\ procOut'.report.confidence_score >= 50]_vars


(***************************************************************************)
(* Claims about categorize_api_type.                                       *)
(***************************************************************************)

\* The tag of the first check, in the order WebSocket, GraphQL, SOAP, REST,
\* that answers True for e; Unknown when none does or the url is unusable.
FirstMatch(e) ==
    IF e.kind # "dict" \/ e.url.t # "str" \/ Strip(e.url.v) = <<>> THEN "Unknown"
    ELSE IF _check_websocket(e) THEN "WebSocket"
    ELSE IF _check_graphql(e) = "True" THEN "GraphQL"
    ELSE IF _check_soap(e) = "True" THEN "SOAP"
    ELSE IF _check_rest(e) = "True" THEN "REST"
    ELSE "Unknown"

\* C7: categorize_api_type returns the tag of the first of the WebSocket,
\* GraphQL, SOAP and REST checks that matches the record, and Unknown only
\* when none matches.
C7_Priority == api_type # "pending" => api_type = FirstMatch(endpoint_data)

\* C8: for every input categorize_api_type returns one of the five tags
\* without raising, and Unknown when url is missing, not a string or blank.
C8_Totality ==
    api_type # "pending" =>
        /\ api_type \in ApiTypes
        /\ (endpoint_data.url.t # "str" \/ Strip(endpoint_data.url.v) = <<>>)
               => api_type = "Unknown"


(***************************************************************************)
(* Claims about deduplicator.py.                                           *)
(***************************************************************************)

\* The positions of l whose record is the first of its non-null signature.
FirstOfSignature(l) ==
    {i \in 1..Len(l) :
        /\ l[i].kind = "dict"
        /\ get_endpoint_signature(l[i]) # NoneSignature
        /\ \A j \in 1..(i - 1) :
              l[j].kind = "dict" =>
                  get_endpoint_signature(l[j]) # get_endpoint_signature(l[i])}

\* The k-th smallest member of a set of positions.
Nth(I, k) == CHOOSE i \in I : Cardinality({j \in I : j < i}) = k - 1

\* C9: deduplicate_endpoints returns, in input order, exactly the first
\* record of each distinct non-null signature; non-mapping items, records
\* without a signature and later records of a seen signature are dropped,
\* records with the same url and different methods have different
\* signatures, and the input list is left as it was.
C9_FirstPerSignature ==
    [][Deduplicate =>
         LET kept == FirstOfSignature(endpoints)
             out == unique_endpoints'.v IN
         /\ Len(out) = Cardinality(kept)
         /\ \A k \in 1..Len(out) : out[k] = endpoints[Nth(kept, k)]
         /\ \A i, j \in 1..Len(endpoints) :
               (/\ endpoints[i].kind = "dict" /\ endpoints[j].kind = "dict"
                /\ endpoints[i].url = endpoints[j].url
                /\ get_endpoint_signature(endpoints[i]).t = "tuple"
                /\ get_endpoint_signature(endpoints[j]).t = "tuple"
                /\ UpperAll(endpoints[i].method.v) # UpperAll(endpoints[j].method.v))
               => get_endpoint_signature(endpoints[i]) # get_endpoint_signature(endpoints[j])
         /\ endpoints' = endpoints]_vars

C9_Witness ==
    /\ endpoints = <<Record(UrlA, Str(<<"GET">>), 1), Record(UrlA2, Str(<<"get">>), 2),
                     Record(UrlA, Str(<<"POST">>), 1)>>
    /\ unique_endpoints = [done |-> TRUE,
                           v |-> <<Record(UrlA, Str(<<"GET">>), 1),
                                   Record(UrlA, Str(<<"POST">>), 1)>>]

\* C10: normalize_url is idempotent, normalize(normalize(u)) = normalize(u),
\* and gives the empty string for an input that is not a string or is empty.
C10_Idempotent ==
    normalized.done =>
        /\ normalize_url(Str(normalized.v)) = normalized.v
        /\ (raw_url.t # "str" \/ raw_url.v = <<>>) => normalized.v = <<>>


\* C11: deduplicate_endpoints is idempotent and never returns more records
\* than it was given: deduplicate(deduplicate(x)) = deduplicate(x) and
\* len(deduplicate(x)) <= len(x).
C11_DedupIdempotent ==
    unique_endpoints.done =>
        /\ deduplicate_endpoints(unique_endpoints.v) = unique_endpoints.v
        /\ Len(unique_endpoints.v) <= Len(endpoints)

C11_Witness ==
    /\ endpoints = <<Record(UrlA, Str(<<"GET">>), 1), Record(UrlA2, Str(<<"get">>), 2),
                     Record(UrlA, Str(<<"GET">>), 1)>>
    /\ unique_endpoints = [done |-> TRUE, v |-> <<Record(UrlA, Str(<<"GET">>), 1)>>]
    /\ deduplicate_endpoints(unique_endpoints.v) = unique_endpoints.v

\* A record whose url uses ws:// or wss://.
IsWebsocketRecord(e) ==
    /\ e.kind = "dict"
    /\ e.url.t = "str"
    /\ (StartsWith(Lower(e.url.v), "ws://") \/ StartsWith(Lower(e.url.v), "wss://"))

\* C13: of the websocket records of a list whose urls normalize to the same
\* string only the first is kept, whatever method fields they carry.
C13_WebsocketByUrl ==
    [][Deduplicate =>
         \A i, j \in 1..Len(unique_endpoints'.v) :
             (/\ IsWebsocketRecord(unique_endpoints'.v[i])
              /\ IsWebsocketRecord(unique_endpoints'.v[j])
              /\ normalize_url(unique_endpoints'.v[i].url) = normalize_url(unique_endpoints'.v[j].url))
             => i = j]_vars


\* C12 (amended): the signature is null when url is missing, not a string or
\* normalizes to the empty string; otherwise it is the pair
\* (normalize(url), UPPERCASE(method)) when method is a non-empty string, and
\* normalize(url) alone when method is absent, not a string or the empty
\* string.
C12_Signature ==
    sig_result.done =>
        LET n == normalize_url(sig_endpoint.url)
            m == sig_endpoint.method IN
        IF sig_endpoint.url.t # "str" \/ n = <<>>
        THEN sig_result.v = NoneSignature
        ELSE IF m.t = "str" /\ m.v # <<>>
             THEN sig_result.v = [t |-> "tuple", url |-> n, method |-> UpperAll(m.v)]
             ELSE sig_result.v = [t |-> "str", url |-> n, method |-> <<>>]

C12_Witness ==
    /\ sig_endpoint = Record(Str(<<"HTTPS://", "Example.com", "/A">>), Str(<<"post">>), 1)
    /\ sig_result = [done |-> TRUE,
                     v |-> [t |-> "tuple", url |-> <<"example.com", "/a">>,
                            method |-> <<"POST">>]]

\* C12 as stated: the signature is the pair (normalize(url),
\* UPPERCASE(method)) whenever method is a string, the empty string included.
C12_AsStated ==
    sig_result.done =>
        LET n == normalize_url(sig_endpoint.url)
            m == sig_endpoint.method IN
        IF sig_endpoint.url.t # "str" \/ n = <<>>
        THEN sig_result.v = NoneSignature
        ELSE IF m.t = "str"
             THEN sig_result.v = [t |-> "tuple", url |-> n, method |-> UpperAll(m.v)]
             ELSE sig_result.v = [t |-> "str", url |-> n, method |-> <<>>]


(***************************************************************************)
(* Claims about the scorers.                                               *)
(***************************************************************************)

InUnit(x) == RatLe(Zero, x) /\ RatLe(x, One)

\* C14: calculate_confidence returns a value in [0,1] for every metadata
\* mapping, equal to 0.3*completeness + 0.4*reliability + 0.15*recency +
\* 0.15*validation with each factor in [0,1], and completeness is 0 whenever
\* total_expected_fields <= 0.
C14_WeightedBound ==
    confidence_score.done =>
        LET metadata == MetadataGet(result_data)
            c == calculate_completeness_score(metadata.fields_present,
                                              metadata.total_expected_fields)
            r == calculate_reliability_score(metadata.source_type)
            a == calculate_recency_score(metadata.discovery_timestamp)
            v == calculate_validation_score(metadata.validated)
            sum == RatAdd(RatAdd(RatMul(Rat(3, 10), c), RatMul(Rat(4, 10), r)),
                          RatAdd(RatMul(Rat(15, 100), a), RatMul(Rat(15, 100), v)))
        IN
        /\ InUnit(confidence_score.v)
        /\ InUnit(c) /\ InUnit(r) /\ InUnit(a) /\ InUnit(v)
        /\ confidence_score.v = sum
        /\ metadata.total_expected_fields <= 0 => c = Zero

C14_Witness ==
    /\ confidence_score.done
    /\ result_data = ResultData(TRUE, IntVal(12), IntVal(10), "OFFICIAL_DOC",
                                [t |-> "datetime", age_in_days |-> -30], "True")
    /\ confidence_score.v = Rat(96, 100)

\* C15: score() returns a value in [0,100] for every profile and every source
\* type, however many paths, interactions, observed methods, common paths or
\* keyword matches there are, and exactly 10 for a source type other than
\* openapi, website and http_interactions.
C15_AdditiveBound ==
    [][\A t \in SourceTypes :
          Score(t) =>
              /\ score_result'.v \in 0..100
              /\ t \notin {"openapi", "website", "http_interactions"} =>
                     score_result'.v = 10]_vars

\* A profile whose points add up to more than 100 has been scored.
C15_Witness ==
    /\ score_result.done
    /\ score_result.v = 100
    /\ profile.common_paths = MaxCommonPaths
    /\ score_unclamped(profile, "website", evidence.spec, evidence.inter) > 100

\* C16: for source type openapi the score of the profile the recognizer
\* produced for a specification is min(100, 50 + 10 if versioning was found
\* + 5 if naming conventions were found + 10 if authentication schemes were
\* found + 5 if a data format is specified + 5 for a title + 10 per declared
\* path up to 3 + 5 for declared security schemes).
C16_OpenApiFormula ==
    [][(Score("openapi") /\ profile.run) =>
          score_result'.v =
              Min(100, 50 + Pts(profile.found["versioning"], 10)
                          + Pts(profile.found["naming_conventions"], 5)
                          + Pts(profile.found["authentication"], 10)
                          + Pts(profile.found["data_formats"], 5)
                          + Pts(evidence.spec.title, 5)
                          + 10 * Min(Len(evidence.spec.paths), 3)
                          + Pts(evidence.spec.securitySchemes, 5))]_vars

\* C17: a profile the recognizer emits holds only categories with findings,
\* and is empty when there is no evidence at all.
C17_OnlyFindings ==
    profile.run =>
        /\ \A c \in profile.keys : profile.found[c]
        /\ (evidence.spec = NoSpec /\ evidence.inter = <<>>) => profile.keys = {}

\* ------------------------------------------------------------------------
\* Claims about clear_stale, clear_all and the cache key.
\* ------------------------------------------------------------------------

\* C18: clear_stale() deletes every entry whose age exceeds max_age_seconds
\* and every entry whose timestamp is missing or does not parse, and leaves
\* every entry of age <= max_age_seconds in the store with its payload and
\* timestamp unchanged.
C18_ClearStale ==
    [][ClearStale =>
          \A k \in DOMAIN store :
              LET parsed == ParseTimestamp(store[k].timestamp) IN
              /\ ~parsed.ok => k \notin DOMAIN store'
              /\ (parsed.ok /\ now - parsed.t > MaxAge) => k \notin DOMAIN store'
              /\ (parsed.ok /\ now - parsed.t <= MaxAge) =>
                     (k \in DOMAIN store' /\ store'[k] = store[k])]_vars

\* C19: clear_all() leaves the store with no entries, whatever it held
\* before; the store then stays empty until the next put, and every get on
\* it misses.
C19_ClearAll ==
    /\ [][ClearAll => DOMAIN store' = {}]_vars
    /\ [][(DOMAIN store = {} /\ lastOp'.op # "put") => DOMAIN store' = {}]_vars
    /\ [][\A p \in DictParams : (Get(p) /\ DOMAIN store = {}) => ret' = "None"]_vars

\* clear_all has emptied a store of two entries.
C19_Witness ==
    /\ lastOp.op = "clear_all"
    /\ lastOp.cleared = 2
    /\ DOMAIN store = {}

C21_Persistence ==
    [][\A p \in LifecycleParams :
          LET k == _generate_key(p) IN
          (/\ Get(p)
           /\ putLog[k] # NoPut
           /\ putLog[k].inst < instance
           /\ now - putLog[k].t <= MaxAge) => ret' = putLog[k].d]_vars

\* The second object has read what the first one wrote a second earlier.
C21_Witness ==
    /\ lastOp.op = "get"
    /\ lastOp.params = ParamsC
    /\ instance = 2
    /\ putLog[_generate_key(ParamsC)] = [d |-> "d2", t |-> 0, inst |-> 1]
    /\ now = 1
    /\ ret = "d2"

\* C22: a ResultCache holds no handle before its first use; entering the
\* with-block opens it; every operation other than an exit or a close leaves
\* an open handle open; leaving the block, normally or by an exception,
\* closes it and resets it to None.
C22_ScopedLifecycle ==
    /\ [][NewInstance => db' = "None"]_vars
    /\ [][Enter => db' = "open"]_vars
    /\ [][(db = "open" /\ lastOp'.op \notin {"__exit__", "__exit__(exc)", "close"}) => db' = "open"]_vars
    /\ [][(Exit \/ ExitRaised) => db' = "None"]_vars
    /\ [](lastOp.op = "init" => db = "None")

\* A block that was entered, put an entry and was left by an exception.
C22_Witness ==
    /\ lastOp.op = "__exit__(exc)"
    /\ db = "None"
    /\ DOMAIN store # {}

\* C30: get, put, clear_stale and clear_all open the store before they touch
\* it, whatever the handle was, so none of them fails on a closed store and
\* each leaves the handle open on return; close() and a context exit on a
\* closed cache change nothing.
C30_OpenBeforeUse ==
    /\ [][lastOp'.op \in {"get", "put", "clear_stale", "clear_all"} =>
             (db' = "open" /\ ret' \notin {"AttributeError", "TypeError"})]_vars
    /\ [][((Exit \/ Close) /\ db = "None") => (db' = "None" /\ store' = store)]_vars

\* A put on a cache whose handle was closed has written its entry.
C30_Witness ==
    /\ lastOp.op = "put"
    /\ instance = 2
    /\ db = "open"
    /\ putLog[_generate_key(ParamsAB)] = [d |-> "d1", t |-> 0, inst |-> 2]
    /\ store[_generate_key(ParamsAB)].data = "d1"

\* ------------------------------------------------------------------------
\* Claims about what get and put do to the store.
\* ------------------------------------------------------------------------

\* C25: every entry the cache wrote is the timestamp and the payload of one
\* put, stored together; a put on an existing key replaces both, restarting
\* the entry's age; and get, put, clear_stale and clear_all leave every entry
\* they keep either as it was or replaced whole by that put.
C25_WholeEntries ==
    /\ [](\A k \in DOMAIN putLog :
             (putLog[k] # NoPut /\ k \in DOMAIN store) =>
                 store[k] = [timestamp |-> isoformat(putLog[k].t), data |-> putLog[k].d])
    /\ [][\A p \in DictParams, d \in CacheData :
             Put(p, d) => store'[_generate_key(p)] = [timestamp |-> isoformat(now), data |-> d]]_vars
    /\ [][lastOp'.op \in {"get", "put", "clear_stale", "clear_all"} =>
             \A k \in DOMAIN store \cap DOMAIN store' :
                 \/ store'[k] = store[k]
                 \/ /\ lastOp'.op = "put"
                    /\ k = _generate_key(lastOp'.params)
                    /\ store'[k].timestamp = isoformat(now)]_vars

\* A put at time 2 on the key of an entry written at time 0 or 1.
C25_Witness ==
    /\ lastOp.op = "put"
    /\ lastOp.params = ParamsAB
    /\ now = 2
    /\ store[_generate_key(ParamsAB)] = [timestamp |-> isoformat(2), data |-> "d2"]
    /\ _generate_key(ParamsC) \in DOMAIN store
    /\ store[_generate_key(ParamsC)].timestamp = isoformat(0)

\* C28: get(p) leaves the store as it was, or deletes the entry under
\* key(p) when that entry is stale; a hit leaves the entry's timestamp and
\* payload unchanged; neither get(p) nor put(p, d) adds, removes or changes
\* an entry under another key.
C28_Frame ==
    /\ [][\A p \in DictParams :
             LET k == _generate_key(p) IN
             Get(p) =>
                 \/ store' = store
                 \/ /\ k \in DOMAIN store
                    /\ ParseTimestamp(store[k].timestamp).ok
                    /\ now - ParseTimestamp(store[k].timestamp).t > MaxAge
                    /\ store' = Remove(store, k)]_vars
    /\ [][\A p \in DictParams :
             (Get(p) /\ ret' \in CacheData) => store' = store]_vars
    /\ [][\A p \in DictParams, d \in CacheData :
             Put(p, d) =>
                 /\ DOMAIN store' = DOMAIN store \cup {_generate_key(p)}
                 /\ \A k \in DOMAIN store \ {_generate_key(p)} : store'[k] = store[k]]_vars

\* A hit at time 2 on an entry written at time 0, beside another entry.
C28_Witness ==
    /\ lastOp.op = "get"
    /\ lastOp.params = ParamsC
    /\ ret = "d1"
    /\ now = 2
    /\ store[_generate_key(ParamsC)] = [timestamp |-> isoformat(0), data |-> "d1"]
    /\ _generate_key(ParamsAB) \in DOMAIN store

\* C23: when the entry under key(p) carries a timestamp that does not parse,
\* get(p) reports a miss without raising and the entry is deleted from the
\* store, as for a stale entry.
C23_UnparsableRead ==
    [][\A p \in DictParams :
          LET k == _generate_key(p) IN
          (Get(p) /\ k \in DOMAIN store /\ store[k].timestamp.fmt = "garbage") =>
              (ret' = "None" /\ k \notin DOMAIN store')]_vars

\* ------------------------------------------------------------------------
\* Claims about repeated and concurrent process_results calls.
\* ------------------------------------------------------------------------

\* C29: of two process_results calls with equal (discovery_method, data) but
\* different openapi_spec or http_interactions, the second, made while the
\* entry under their key is fresh, receives the cached report and computes
\* nothing from its own context.
C29_KeyIgnoresContext ==
    [][\A m \in DiscoveryMethods, d \in DataValues, s \in SpecArgs, i \in InteractionArgs :
          (/\ Process(m, d, s, i)
           /\ DOMAIN procCall # {}
           /\ procCall.discovery_method = m /\ procCall.data = d
           /\ (procCall.openapi_spec # s \/ procCall.http_interactions # i)
           /\ FreshEntry(m, d))
          => /\ procOut'.outcome = "return"
             /\ procOut'.from_cache
             /\ procOut'.report = store[_generate_key(generate_key(m, d))].data
             /\ ~procOut'.recognizer_invoked]_vars

\* C24: two concurrent process_results calls for the same (discovery_method,
\* data) that both miss each run the whole computation and each perform
\* their own put; in every interleaving the store afterwards holds one whole
\* entry under their key, the report of one of the two calls.
C24_LastPutWins ==
    (/\ \A c \in Callers : callers[c].pc \in {"returned", "raised"}
     /\ callers["c1"].discovery_method = callers["c2"].discovery_method
     /\ callers["c1"].data = callers["c2"].data
     /\ callers["c1"].discovery_method # "website_analysis")
    => LET k == _generate_key(generate_key(callers["c1"].discovery_method,
                                           callers["c1"].data)) IN
       /\ \A c \in Callers : callers[c].pc = "returned" /\ callers[c].puts = 1
       /\ k \in DOMAIN store
       /\ store[k].data \in {callers[c].report : c \in Callers}
       /\ store[k].timestamp.fmt = "iso"


(***************************************************************************)
(* Claims about the versions identify_versioning reports.                  *)
(***************************************************************************)

\* The first segment of the form v<number> of a path string, wherever it is.
RECURSIVE segment_version(_)
segment_version(path_string) ==
    IF path_string = <<>> THEN "None"
    ELSE IF Head(path_string) \in VersionSegments THEN version_of(Head(path_string))
    ELSE segment_version(Tail(path_string))

RECURSIVE FirstSeen(_, _)
FirstSeen(path_strings, seen) ==
    IF path_strings = <<>> THEN seen
    ELSE FirstSeen(Tail(path_strings), append_new(seen, segment_version(Head(path_strings))))

\* C26: identify_versioning detects the version of every spec path and every
\* request URL that has a segment v<number>, lists them in path_versions in
\* first-seen order without duplicates, and reports identified_versions as
\* the sorted duplicate-free union of the path, header and query versions.
C26_PathVersioning ==
    versioning.done =>
        LET expected == FirstSeen(recognizer.paths \o Urls(recognizer.http_interactions), <<>>)
            inter == recognizer.http_interactions
            carried == {inter[i].header : i \in 1..Len(inter)}
                           \cup {inter[i].param : i \in 1..Len(inter)}
        IN  /\ versioning.v.path_versions = expected
            /\ versioning.v.identified_versions =
                   sorted_versions(SeqToSet(expected) \cup (carried \ {"None"}))


(***************************************************************************)
(* Claims about the crawl of WebsiteAnalyzer.analyze.                      *)
(***************************************************************************)

\* The URLs at most n links away from the base URL.
RECURSIVE Within(_, _)
Within(st, n) ==
    IF n = 0 THEN {BaseUrl}
    ELSE LET near == Within(st, n - 1) IN
         near \cup UNION {extract_links(st, u) : u \in near}

NoRepeat(q) == \A i, j \in 1..Len(q) : i # j => q[i] # q[j]

\* C27: analyze(crawl_depth=d) ends on every link graph, cycles included;
\* the loop fetches each URL at most once and no page more than d links from
\* the base URL, and queues no link found at depth d; after the loop
\* sitemap.xml and robots.txt are fetched once each, whether or not the loop
\* fetched them; a page whose fetch failed is in the returned urls only when
\* sitemap.xml or robots.txt lists it.
C27_BoundedCrawl ==
    /\ [](crawl.pc \in {"loop", "done"} =>
             /\ NoRepeat(crawl.html_fetches)
             /\ \A i \in 1..Len(crawl.html_fetches) :
                    crawl.html_fetches[i] \in Within(site, crawl.crawl_depth)
             /\ \A i \in 1..Len(crawl.queue) : crawl.queue[i][2] <= crawl.crawl_depth)
    /\ [](crawl.pc = "done" =>
             /\ crawl.url_fetches = crawl.html_fetches \o <<SitemapUrl, RobotsUrl>>
             /\ \A u \in site.fails :
                    u \in SeqToSet(crawl.urls) => u \in site.sitemap \cup site.robots)
    /\ (crawl.pc = "loop" ~> crawl.pc = "done")

\* A crawl to depth 2 of a graph with the cycle base -> a -> base, where b is
\* linked from both pages and its fetch fails.
C27_Witness ==
    /\ crawl.pc = "done" /\ crawl.crawl_depth = 2
    /\ site.links[BaseUrl] = {PageA, PageB} /\ site.links[PageA] = {BaseUrl, PageB}
    /\ site.fails = {PageB} /\ site.robots = {}
    /\ crawl.html_fetches = <<BaseUrl, PageA, PageB>>
    /\ crawl.urls = <<BaseUrl, PageA>>

\* C27 as stated: no URL is fetched twice by analyze, and no page whose fetch
\* failed is in the returned urls.
C27_AsStated ==
    crawl.pc = "done" =>
        /\ NoRepeat(crawl.url_fetches)
        /\ \A i \in 1..Len(crawl.html_fetches) :
               crawl.html_fetches[i] \in Within(site, crawl.crawl_depth)
        /\ site.fails \cap SeqToSet(crawl.urls) = {}

=============================================================================
